---- MODULE Spec2Model ----
(***************************************************************************)
(* Telestack real-time DB: the Cloudflare worker of                        *)
(* src/TelestackrealtimeDB/src/index.ts over its D1 (SQLite) database.     *)
(*                                                                         *)
(* Every request is one run of the worker's fetch handler.  A handler      *)
(* yields at each await; each D1 statement (prepare(..).run/first/all) is  *)
(* one atomic step of the database, DB.batch([..]) is one transaction, and *)
(* each publishToCentrifugo call is one step.  Handlers of concurrent      *)
(* requests interleave between those steps.                                *)
(***************************************************************************)
EXTENDS Integers, Sequences, FiniteSets, Bags, TLC

(***************************************************************************)
(* Bounds of the model.                                                    *)
(***************************************************************************)
\* rows the events table may hold (caps the version counter)
MaxEvents == 3

\* handler slots: requests that may be in flight together
Slots == {"h1", "h2"}
\* client-chosen document ids, and the id crypto.randomUUID() yields for a Create
DocIds == {"a", "b"}
AutoIds == {"u1"}
AllIds == DocIds \cup AutoIds
\* auth context: null (anonymous) or { userId }
NullAuth == "null"
Auths == {NullAuth, "alice"}
DefaultWorkspace == "default"

(***************************************************************************)
(* JSON values.  A value is null, a literal (number/string/boolean, kept   *)
(* as its JSON text) or an object, a function from its keys to values.     *)
(***************************************************************************)
JNull == [t |-> "null"]
JLit(s) == [t |-> "lit", s |-> s]
JObj(o) == [t |-> "obj", o |-> o]
EmptyMembers == [k \in {} |-> JNull]
IsObj(v) == v.t = "obj"

\* the keys of the model's objects, in the order the serialiser emits them
KeyOrder == <<"w", "x", "y", "z">>

RECURSIVE JSON_stringify(_)
RECURSIVE StringifyMembers(_, _)
\* the members of object map o from position i of KeyOrder on, as tokens
StringifyMembers(o, i) ==
    IF i > Len(KeyOrder) THEN <<>>
    ELSE IF KeyOrder[i] \in DOMAIN o
         THEN <<KeyOrder[i]>> \o JSON_stringify(o[KeyOrder[i]]) \o StringifyMembers(o, i + 1)
         ELSE StringifyMembers(o, i + 1)

\* JSON.stringify: the text of a value, as a sequence of tokens
JSON_stringify(v) ==
    CASE v.t = "null" -> <<"null">>
      [] v.t = "lit"  -> <<v.s>>
      [] v.t = "obj"  -> <<"{">> \o StringifyMembers(v.o, 1) \o <<"}">>

RECURSIVE ParseValue(_)
RECURSIVE ParseMembers(_, _)
\* the members up to the closing brace; acc holds those read so far
ParseMembers(ts, acc) ==
    IF Head(ts) = "}" THEN [val |-> JObj(acc), rest |-> Tail(ts)]
    ELSE LET pv == ParseValue(Tail(ts))
         IN  ParseMembers(pv.rest, [k \in DOMAIN acc \cup {Head(ts)} |->
                                        IF k = Head(ts) THEN pv.val ELSE acc[k]])

\* one value at the head of the token sequence, and the tokens after it
ParseValue(ts) ==
    IF Head(ts) = "{" THEN ParseMembers(Tail(ts), EmptyMembers)
    ELSE IF Head(ts) = "null" THEN [val |-> JNull, rest |-> Tail(ts)]
    ELSE [val |-> JLit(Head(ts)), rest |-> Tail(ts)]

\* JSON.parse
JSON_parse(text) == ParseValue(text).val

\* a shallow merge that copies the patch's members over the target's
\* (Object.assign): nulls are stored and nested objects replaced
ShallowAssign(target, patch) ==
    IF ~IsObj(patch) THEN patch
    ELSE LET T == IF IsObj(target) THEN target.o ELSE EmptyMembers
             P == patch.o
         IN  JObj([k \in DOMAIN T \cup DOMAIN P |-> IF k \in DOMAIN P THEN P[k] ELSE T[k]])

RECURSIVE MergePatch(_, _)
\* RFC 7396 merge patch, which SQLite's json_patch(target, patch) computes
MergePatch(target, patch) ==
    IF ~IsObj(patch) THEN patch
    ELSE LET T    == IF IsObj(target) THEN target.o ELSE EmptyMembers
             P    == patch.o
             keep == {k \in DOMAIN T : k \notin DOMAIN P}
             put  == {k \in DOMAIN P : P[k].t # "null"}
         IN  JObj([k \in keep \cup put |->
                     IF k \in put
                     THEN MergePatch(IF k \in DOMAIN T THEN T[k] ELSE JNull, P[k])
                     ELSE T[k]])

\* SQL json_patch(data, ?) on the TEXT columns
json_patch(dataText, patchText) ==
    JSON_stringify(MergePatch(JSON_parse(dataText), JSON_parse(patchText)))


(***************************************************************************)
(* Security rules.  A path is the sequence of its '/'-separated segments.  *)
(***************************************************************************)
Undefined == "undefined"

\* rulesConfig.rules, in declaration order
rulesConfig ==
    << [path |-> <<"sync">>,
        allow |-> [read |-> "auth !== null", write |-> Undefined, delete |-> Undefined]],
       [path |-> <<"storage", "users", "{userId}", "**">>,
        allow |-> [read   |-> "auth !== null && auth.sub === userId",
                   write  |-> "auth !== null && auth.sub === userId",
                   delete |-> "auth !== null && auth.sub === userId"]],
       [path |-> <<"documents", "{path=**}">>,
        allow |-> [read |-> "auth.userId === userId", write |-> "auth.userId === userId",
                   delete |-> Undefined]],
       [path |-> <<"{collection}">>,
        allow |-> [read |-> "true", write |-> "auth !== null", delete |-> Undefined]],
       [path |-> <<"{collection}", "{id}">>,
        allow |-> [read |-> "true", write |-> "auth !== null", delete |-> Undefined]],
       [path |-> <<"{collection}", "{id}", "**">>,
        allow |-> [read |-> "true", write |-> "auth !== null", delete |-> Undefined]] >>

\* segments written {name}
ParamSegments == {"{userId}", "{collection}", "{id}"}

\* path.startsWith(base) for a base that ends on a segment boundary or in '/':
\* the path's leading segments are the base's (no path segment of the model
\* continues another one's text)
StartsWithSegments(path, base) ==
    /\ Len(path) >= Len(base)
    /\ \A i \in 1..Len(base) : path[i] = base[i]

\* SecurityRules.matchPath: does the pattern match the path
matchPath(pattern, path) ==
    \/ /\ pattern[Len(pattern)] = "**"
       /\ StartsWithSegments(path, SubSeq(pattern, 1, Len(pattern) - 1))
    \/ /\ pattern[Len(pattern)] = "{path=**}"
       /\ Len(path) > Len(pattern) - 1
       /\ StartsWithSegments(path, SubSeq(pattern, 1, Len(pattern) - 1))
    \/ /\ Len(pattern) = Len(path)
       /\ \A i \in 1..Len(pattern) : pattern[i] \in ParamSegments \/ pattern[i] = path[i]

\* SecurityRules.evaluateExpression.  Only the three literal expressions are
\* decided without eval; every other configured expression names `auth` or
\* `userId` bare, which eval cannot resolve: it throws and the rule denies.
evaluateExpression(expression, auth) ==
    CASE expression = "true"          -> TRUE
      [] expression = "false"         -> FALSE
      [] expression = "auth !== null" -> auth # NullAuth
      [] OTHER                        -> FALSE

\* rule.allow[operation] || rule.allow['write'] || 'false'
Expression(rule, operation) ==
    IF rule.allow[operation] # Undefined THEN rule.allow[operation]
    ELSE IF rule.allow["write"] # Undefined THEN rule.allow["write"]
    ELSE "false"

\* a loop over the rules from the last one back: the last matching rule decides
RECURSIVE evaluateFromLast(_, _, _, _)
evaluateFromLast(i, path, operation, auth) ==
    LET n == Len(rulesConfig) + 1 - i IN
    IF n < 1 THEN FALSE
    ELSE IF matchPath(rulesConfig[n].path, path)
         THEN evaluateExpression(Expression(rulesConfig[n], operation), auth)
         ELSE evaluateFromLast(i + 1, path, operation, auth)

\* the loop of SecurityRules.evaluate from rule i on
RECURSIVE evaluateFrom(_, _, _, _)
evaluateFrom(i, path, operation, auth) ==
    IF i > Len(rulesConfig) THEN FALSE
    ELSE IF matchPath(rulesConfig[i].path, path)
         THEN evaluateExpression(Expression(rulesConfig[i], operation), auth)
         ELSE evaluateFrom(i + 1, path, operation, auth)

\* SecurityRules.evaluate: first matching rule decides, default deny
evaluate(path, operation, auth) == evaluateFrom(1, path, operation, auth)


(***************************************************************************)
(* State.                                                                  *)
(***************************************************************************)
VARIABLES
    documents,     \* the documents table: id -> row, for the ids that have a row
    events,        \* the events table, in rowid (version) order
    publications,  \* the publications dispatched to the broker so far, a bag
    handlers,      \* per slot: the fetch handler running there, its locals and response
    lastSet,       \* per id: the PUT whose document write is the latest write of the row
    tombstoned,    \* per id: the version of the Delete that wrote the row, no Set since
    sent,          \* the response the latest step returned, if it returned one
    client         \* the SDK client: network, IndexedDB stores, the call in progress

vars == <<documents, events, publications, handlers, lastSet, tombstoned, sent, client>>

\* request bodies of the concurrent model: the data a Create or Set stores and
\* the patch an Update sends
SetData == JObj([k \in {"x"} |-> JLit("1")])
PatchData == JObj([k \in {"y"} |-> JLit("2")])
\* `data` absent from a request body or a batch operation
JUndefined == [t |-> "undefined"]

TheOne(s) == CHOOSE x \in s : TRUE
Last(seq) == seq[Len(seq)]

(***************************************************************************)
(* The D1 statements.                                                      *)
(***************************************************************************)
\* a counter that hands the largest version out again
RepeatVersion(evs) == IF evs = <<>> THEN 1 ELSE Last(evs).version

\* events.version INTEGER PRIMARY KEY AUTOINCREMENT: one more than the largest
\* rowid the table has held (rows are never deleted)
NextVersion(evs) == IF evs = <<>> THEN 1 ELSE Last(evs).version + 1

\* INSERT INTO events(id, doc_id, workspace_id, event_type, payload)
InsertEvent(evs, doc_id, workspace_id, event_type, payload) ==
    Append(evs, [version |-> NextVersion(evs), doc_id |-> doc_id,
                 workspace_id |-> workspace_id, event_type |-> event_type,
                 payload |-> payload])

\* documents has a TEXT primary key and so an implicit rowid: a new row gets
\* one more than the largest rowid in use
NextRowid(docs) == Cardinality(DOMAIN docs) + 1

\* INSERT INTO documents (id, workspace_id, collection_name, path, user_id, data, version)
InsertDocument(docs, id, workspace_id, collection_name, path, data, version) ==
    [d \in DOMAIN docs \cup {id} |->
        IF d = id
        THEN [workspace_id |-> workspace_id, collection_name |-> collection_name,
              path |-> path, data |-> data, version |-> version, deleted_at |-> FALSE]
        ELSE docs[d]]

\* UPDATE documents SET <columns of row> WHERE id = ?  (no row: nothing changes)
UpdateDocument(docs, id, row) ==
    [d \in DOMAIN docs |-> IF d = id THEN row ELSE docs[d]]

\* SELECT path, workspace_id, version FROM documents WHERE id = ?  (.first())
SelectDocument(docs, id) ==
    IF id \in DOMAIN docs
    THEN {[path |-> docs[id].path, workspace_id |-> docs[id].workspace_id,
           version |-> docs[id].version]}
    ELSE {}

\* a value bound to a TEXT parameter: JSON.stringify(data)
Bind(data) == JSON_stringify(data)

\* `${prefix}:${path.replace(/\//g, '_')}`
Channel(prefix, path) == <<prefix>> \o path

\* path.split('/').slice(0, -1)
CollectionPath(path) == SubSeq(path, 1, Len(path) - 1)


(***************************************************************************)
(* Handlers.  pc names the statement the handler runs next.                *)
(***************************************************************************)
IdleHandler ==
    [method |-> "IDLE", pc |-> "idle", collection |-> "", docId |-> "", auth |-> NullAuth,
     data |-> JUndefined, expectedVersion |-> {}, operations |-> <<>>,
     doc |-> {}, version |-> 0, i |-> 0, batchRes |-> <<>>, publishPayloads |-> <<>>,
     status |-> 0, resData |-> JUndefined, sawSet |-> {},
     workspace |-> DefaultWorkspace, parentPath |-> <<>>]

\* a request as the SDK sends it at its defaults: workspace 'default' and no
\* parentPath in the body
Request(method, collection, docId, auth, data, expectedVersion, operations) ==
    [IdleHandler EXCEPT !.method = method, !.collection = collection, !.docId = docId,
                        !.auth = auth, !.data = data, !.expectedVersion = expectedVersion,
                        !.operations = operations]

\* return new Response(..., { status }): the handler as it returns
Respond(h, status) == [h EXCEPT !.pc = "done", !.status = status]

\* the response a returning handler sends: its status and, when it is a JSON
\* body, the body's id, data and version; sawSet is the Set a GET read the
\* row of, if the row's latest write is a Set's; a 403 is kept with the
\* collection and the auth context of the request it denies
Response(h) ==
    IF h.status \in {200, 201}
    THEN [method |-> h.method, status |-> h.status, id |-> h.docId, data |-> h.resData,
          version |-> h.version, sawSet |-> h.sawSet]
    ELSE IF h.status = 403
    THEN [method |-> h.method, status |-> h.status, id |-> h.docId, data |-> JUndefined,
          version |-> 0, sawSet |-> h.sawSet, collection |-> h.collection, auth |-> h.auth]
    ELSE [method |-> h.method, status |-> h.status, id |-> h.docId, data |-> JUndefined,
          version |-> 0, sawSet |-> h.sawSet]

\* slot r once its handler has taken the step to h: a handler that returned
\* is gone and its slot free
Handled(r, h) ==
    /\ handlers' = [handlers EXCEPT ![r] = IF h.pc = "done" THEN IdleHandler ELSE h]
    /\ sent' = IF h.pc = "done" THEN {Response(h)} ELSE {}

\* a step of the server, or a request of some other client: the SDK client
\* of the model is not involved
After(r, h) ==
    /\ Handled(r, h)
    /\ UNCHANGED client

InFlight(h) == h.pc # "idle"
AtRest == \A r \in Slots : ~InFlight(handlers[r])

\* events a handler in flight has still to append
EventsOwed(h) ==
    IF h.pc \in {"select", "insertEvent"} /\ h.method # "GET" THEN 1
    ELSE IF h.pc \in {"batchSelect", "batchCommit"} THEN Len(h.operations)
    ELSE 0

RECURSIVE SumOwed(_)
SumOwed(S) == IF S = {} THEN 0
              ELSE LET r == TheOne(S) IN EventsOwed(handlers[r]) + SumOwed(S \ {r})

\* the events table has room for n more rows once every handler in flight is through
Room(n) == Len(events) + SumOwed(Slots) + n <= MaxEvents

\* expectedVersion as a client sends it: absent, or the version it last read
ExpectedVersions(id) ==
    {{}} \cup {{IF id \in DOMAIN documents THEN documents[id].version ELSE 0}}

\* lines 265-272: the security check on the URL's path, then the route's first statement
Route(h, docPath, first) ==
    IF evaluate(docPath, IF h.method = "GET" THEN "read" ELSE "write", h.auth)
    THEN [h EXCEPT !.pc = first]
    ELSE Respond(h, 403)

\* POST /documents/<collection>
AcceptCreate(r) ==
    /\ handlers[r].pc = "idle"
    /\ Room(1)
    /\ \E id \in AutoIds, auth \in Auths, data \in {SetData} :
          /\ \A i \in 1..Len(events) : events[i].doc_id # id
          /\ \A q \in Slots : handlers[q].docId # id
          /\ After(r,
                 Route(Request("POST", "items", id, auth, data, {}, <<>>),
                       <<"items">>, "insertEvent"))
    /\ UNCHANGED <<documents, events, publications, lastSet, tombstoned>>

\* GET /documents/<collection>/<id>
AcceptGet(r) ==
    /\ handlers[r].pc = "idle"
    /\ \E id \in DocIds, auth \in Auths :
          After(r,
              Route(Request("GET", "items", id, auth, JUndefined, {}, <<>>),
                    <<"items", id>>, "select"))
    /\ UNCHANGED <<documents, events, publications, lastSet, tombstoned>>

\* PUT, PATCH or DELETE /documents/<collection>/<id>
AcceptWrite(r, method) ==
    /\ handlers[r].pc = "idle"
    /\ Room(1)
    /\ \E id \in DocIds, auth \in Auths,
          data \in CASE method = "PUT"    -> {SetData}
                      [] method = "PATCH"  -> {PatchData}
                      [] method = "DELETE" -> {JUndefined} :
       \E expectedVersion \in ExpectedVersions(id) :
          After(r,
              Route(Request(method, "items", id, auth, data, expectedVersion, <<>>),
                    <<"items", id>>, "select"))
    /\ UNCHANGED <<documents, events, publications, lastSet, tombstoned>>

AcceptPut(r) == AcceptWrite(r, "PUT")
AcceptPatch(r) == AcceptWrite(r, "PATCH")
AcceptDelete(r) == AcceptWrite(r, "DELETE")

\* lines 526-528, 536-542, 594-600, 639-644: the first SELECT and what follows
\* it before the next await
Select(r) ==
    LET h == handlers[r]
        id == h.docId
        doc == SelectDocument(documents, id)
        conflict == /\ doc # {}
                    /\ h.expectedVersion # {}
                    /\ TheOne(doc).version \notin h.expectedVersion
    IN
    /\ h.pc = "select"
    /\ After(r,
          CASE h.method = "GET" ->
                 IF id \in DOMAIN documents /\ ~documents[id].deleted_at
                 THEN [Respond(h, 200) EXCEPT
                          !.resData = JSON_parse(documents[id].data),
                          !.version = documents[id].version,
                          !.sawSet = lastSet[id]]
                 ELSE [Respond(h, 404) EXCEPT !.sawSet = lastSet[id]]
            [] h.method = "PUT" ->
                 IF conflict THEN Respond(h, 409)
                 ELSE [h EXCEPT !.doc = doc, !.pc = "insertEvent"]
            [] h.method = "PATCH" ->
                 IF doc = {} THEN Respond(h, 404)
                 ELSE IF conflict THEN Respond(h, 409)
                 ELSE [h EXCEPT !.doc = doc, !.pc = "insertEvent"]
            [] h.method = "DELETE" ->
                 IF doc = {} THEN Respond(h, 204)
                 ELSE IF conflict THEN Respond(h, 409)
                 ELSE [h EXCEPT !.doc = doc, !.pc = "insertEvent"])
    /\ UNCHANGED <<documents, events, publications, lastSet, tombstoned>>

\* the event_type and payload a single-document write logs
EventType(h) ==
    CASE h.method = "POST"   -> "INSERT"
      [] h.method = "PUT"    -> IF h.doc # {} THEN "SET" ELSE "INSERT"
      [] h.method = "PATCH"  -> "UPDATE"
      [] h.method = "DELETE" -> "DELETE"

\* lines 405-409, 545-549, 571-575, 602-606, 646-650: INSERT INTO events, and
\* version = eventRes.meta.last_row_id
InsertEventStep(r) ==
    LET h == handlers[r]
        workspace == IF h.method = "DELETE" THEN TheOne(h.doc).workspace_id
                     ELSE h.workspace
        payload == IF h.method = "DELETE" THEN Bind(JObj(EmptyMembers)) ELSE Bind(h.data)
        evs == InsertEvent(events, h.docId, workspace, EventType(h), payload)
    IN
    /\ h.pc = "insertEvent"
    /\ events' = evs
    /\ After(r,
                       [h EXCEPT !.version = Last(evs).version, !.pc = "writeDoc"])
    /\ UNCHANGED <<documents, publications, lastSet, tombstoned>>

\* the two publications of a write: the payload's type, the id it names, its
\* version and its doc.version (0: the payload has no such member)
Payloads2(type, id, path, version, docVersion) ==
    << [channel |-> Channel("collection", CollectionPath(path)), type |-> type,
        id |-> id, version |-> version, docVersion |-> docVersion],
       [channel |-> Channel("path", path), type |-> type, id |-> id,
        version |-> version, docVersion |-> docVersion] >>

\* an UPDATE that leaves deleted_at as it is
PutUpdateKeepsTombstone(row, data, version) ==
    [row EXCEPT !.data = Bind(data), !.version = version]

\* PUT on a row: UPDATE documents SET data = ?, version = ?, deleted_at = NULL
PutUpdate(row, data, version) ==
    [row EXCEPT !.data = Bind(data), !.version = version, !.deleted_at = FALSE]

\* PATCH: UPDATE documents SET data = json_patch(data, ?), version = ?, deleted_at = NULL
PatchUpdate(row, data, version) ==
    [row EXCEPT !.data = json_patch(row.data, Bind(data)), !.version = version,
                !.deleted_at = FALSE]

\* DELETE: UPDATE documents SET deleted_at = CURRENT_TIMESTAMP, version = ?
DeleteUpdate(row, version) ==
    [row EXCEPT !.deleted_at = TRUE, !.version = version]

\* lines 412-414, 552-554, 577-579, 609-611, 653-655: the statement on documents
WriteDoc(r) ==
    LET h == handlers[r]
        id == h.docId
        \* parentPath ? `${parentPath}/${collection}/${id}` : `${collection}/${id}`
        path == h.parentPath \o <<h.collection, id>>
        exists == id \in DOMAIN documents
        \* INSERT of an id that has a row by now: UNIQUE constraint failed, the
        \* statement throws and the outer catch answers 500
        fails == h.method = "PUT" /\ h.doc = {} /\ exists
        docs ==
            CASE h.method = "POST" ->
                   InsertDocument(documents, id, h.workspace, h.collection, path,
                                  Bind(h.data), h.version)
              [] h.method = "PUT" /\ h.doc = {} ->
                   IF exists THEN documents
                   ELSE InsertDocument(documents, id, h.workspace, h.collection, path,
                                       Bind(h.data), h.version)
              [] h.method = "PUT" /\ h.doc # {} ->
                   UpdateDocument(documents, id, PutUpdate(documents[id], h.data, h.version))
              [] h.method = "PATCH" ->
                   UpdateDocument(documents, id, PatchUpdate(documents[id], h.data, h.version))
              [] h.method = "DELETE" ->
                   UpdateDocument(documents, id, DeleteUpdate(documents[id], h.version))
        pubs ==
            \* { type: 'CREATED', doc: { id, ..., version, ... } }
            CASE h.method = "POST" -> Payloads2("CREATED", id, path, 0, h.version)
              [] h.method = "PUT" /\ h.doc = {} -> Payloads2("CREATED", id, path, 0, h.version)
              \* { type: 'UPDATED', id, doc: { ..., version, ... }, version }
              [] h.method = "PUT" /\ h.doc # {} ->
                   Payloads2("UPDATED", id, TheOne(h.doc).path, h.version, h.version)
              [] h.method = "PATCH" -> <<>>
              [] h.method = "DELETE" ->
                   \* { type: 'DELETED', id, version }
                   Payloads2("DELETED", id, TheOne(h.doc).path, h.version, 0)
    IN
    /\ h.pc = "writeDoc"
    /\ documents' = docs
    /\ After(r,
          IF fails THEN Respond(h, 500)
          ELSE [h EXCEPT !.publishPayloads = pubs,
                         !.pc = IF h.method = "PATCH" THEN "refetch" ELSE "publish"])
    /\ lastSet' = [lastSet EXCEPT ![id] =
          IF fails THEN @
          ELSE IF h.method = "PUT"
               THEN {[data |-> h.data, version |-> h.version,
                      over |-> IF ~exists THEN "nothing"
                               ELSE IF documents[id].deleted_at THEN "tombstone"
                               ELSE "document"]}
          ELSE {}]
    /\ tombstoned' = [tombstoned EXCEPT ![id] =
          IF fails \/ h.method = "PATCH" THEN @
          ELSE IF h.method = "DELETE" THEN {h.version}
          ELSE {}]
    /\ UNCHANGED <<events, publications>>

\* lines 613-615: PATCH reads the row back for its publications
Refetch(r) ==
    LET h == handlers[r]
        updatedDoc == documents[h.docId]
    IN
    /\ h.pc = "refetch"
    /\ After(r,
          [h EXCEPT !.publishPayloads =
                       << [channel |-> Channel("collection", CollectionPath(TheOne(h.doc).path)),
                           type |-> "UPDATED", id |-> h.docId, version |-> h.version,
                           docVersion |-> h.version],
                          [channel |-> Channel("path", updatedDoc.path),
                           type |-> "UPDATED", id |-> h.docId, version |-> h.version,
                           docVersion |-> h.version] >>,
                    !.pc = "publish"])
    /\ UNCHANGED <<documents, events, publications, lastSet, tombstoned>>

\* the status of the success response of a write
SuccessStatus(h) ==
    CASE h.method = "POST"   -> 201
      [] h.method = "PUT"    -> IF h.doc = {} THEN 201 ELSE 200
      [] h.method = "DELETE" -> 204
      [] OTHER               -> 200

\* the handler once an awaited publishToCentrifugo has returned: it goes on to
\* the next publication, and after the last one returns its success response
Published(h) ==
    IF Len(h.publishPayloads) = 1
    THEN [Respond(h, SuccessStatus(h)) EXCEPT !.publishPayloads = <<>>]
    ELSE [h EXCEPT !.publishPayloads = Tail(@)]

\* a publish error that reaches the handler and its outer catch (lines 666-669)
RethrowPublishError(h) == Respond(h, 500)

\* lines 19-22, 39-52: a publish that does not reach the broker (no URL or key
\* configured, fetch throws, the broker answers an error) is logged, and
\* publishToCentrifugo returns to the handler as after a publish that did
CatchPublishError(h) == Published(h)

\* await publishToCentrifugo(env, channel, payload), the broker taking the
\* publication
Publish(r) ==
    LET h == handlers[r] IN
    /\ h.pc = "publish"
    /\ publications' = publications (+) SetToBag({Head(h.publishPayloads)})
    /\ After(r, Published(h))
    /\ UNCHANGED <<documents, events, lastSet, tombstoned>>

\* await publishToCentrifugo(env, channel, payload), the publish failing
PublishFails(r) ==
    LET h == handlers[r] IN
    /\ h.pc = "publish"
    /\ After(r, CatchPublishError(h))
    /\ UNCHANGED <<documents, events, publications, lastSet, tombstoned>>

(***************************************************************************)
(* POST /documents/batch.                                                  *)
(***************************************************************************)
\* a batch operation as a client sends it: with the version it read of the
\* document (occ) or without expectedVersion
Operation(type, path, occ) ==
    [type |-> type, path |-> path,
     data |-> IF type = "DELETE" THEN JUndefined ELSE PatchData,
     expectedVersion |-> IF occ THEN TheOne(ExpectedVersions(Last(path)) \ {{}}) ELSE {}]

\* a Set, Update or Delete of a document of `items`, or a Set under `documents/`
BatchOperations ==
    { Operation(tid[1], <<"items", tid[2]>>, occ) :
         tid \in {"SET", "UPDATE", "DELETE"} \X DocIds, occ \in BOOLEAN }
    \cup { Operation("SET", <<"documents", "a">>, FALSE) }

\* the request bodies: every single operation, and a Set of `a` followed by
\* any operation on `b`
BatchBodies ==
    { <<o>> : o \in BatchOperations }
    \cup { <<Operation("SET", <<"items", "a">>, FALSE), o>> :
              o \in {x \in BatchOperations : x.path = <<"items", "b">>} }

AcceptBatch(r) ==
    /\ handlers[r].pc = "idle"
    /\ \A q \in Slots : handlers[q].method # "BATCH"
    /\ \E operations \in BatchBodies, auth \in Auths :
          /\ Room(Len(operations))
          /\ After(r, Route(Request("BATCH", "batch", "", auth, JUndefined, {}, operations),
                            <<"batch">>, "batchSelect"))
    /\ UNCHANGED <<documents, events, publications, lastSet, tombstoned>>

\* lines 294-312: one turn of the loop up to its await, the SELECT of the
\* operation's current version, then the OCC and security checks
BatchSelect(r) ==
    LET h == handlers[r]
        op == h.operations[h.i + 1]
        id == Last(op.path)
        currentDoc == SelectDocument(documents, id)
        conflict == /\ op.expectedVersion # {}
                    /\ \/ currentDoc = {}
                       \/ TheOne(currentDoc).version \notin op.expectedVersion
        authOp == IF op.type = "DELETE" THEN "delete" ELSE "write"
    IN
    /\ h.pc = "batchSelect"
    /\ After(r,
          IF conflict THEN Respond(h, 409)
          ELSE IF ~evaluate(op.path, authOp, h.auth) THEN Respond(h, 403)
          ELSE [h EXCEPT !.i = h.i + 1,
                         !.pc = IF h.i + 1 = Len(h.operations) THEN "batchCommit"
                                ELSE "batchSelect"])
    /\ UNCHANGED <<documents, events, publications, lastSet, tombstoned>>

\* the value of last_insert_rowid() the document statement of a batch reads:
\* the rowid of the connection's latest INSERT, the operation's event
LastInsertRowid(db) == db.last_insert_rowid

\* lines 318-337: the two statements of one operation, run in the transaction.
\* db: the tables, the connection's last_insert_rowid() and the statements'
\* results (meta.last_row_id, meta.changes) so far
ApplyOperation(db, op, workspaceId) ==
    LET id == Last(op.path)
        col == op.path[Len(op.path) - 1]
        eventType == IF op.type = "SET" THEN "INSERT"
                     ELSE IF op.type = "UPDATE" THEN "UPDATE" ELSE "DELETE"
        payload == IF op.data = JUndefined THEN Bind(JObj(EmptyMembers)) ELSE Bind(op.data)
        evs == InsertEvent(db.events, id, workspaceId, eventType, payload)
        afterEvent == [db EXCEPT !.events = evs,
                                 !.last_insert_rowid = Last(evs).version,
                                 !.res = Append(@, [last_row_id |-> Last(evs).version,
                                                    changes |-> 1])]
        version == LastInsertRowid(afterEvent)
        exists == id \in DOMAIN db.documents
        docs ==
            CASE op.type = "SET" /\ ~exists ->
                   InsertDocument(db.documents, id, workspaceId, col, op.path,
                                  Bind(op.data), version)
              [] op.type = "SET" /\ exists ->
                   UpdateDocument(db.documents, id,
                       [db.documents[id] EXCEPT !.data = Bind(op.data), !.version = version,
                                                !.deleted_at = FALSE])
              [] op.type = "UPDATE" /\ exists ->
                   UpdateDocument(db.documents, id,
                       [db.documents[id] EXCEPT !.data = Bind(op.data), !.version = version])
              [] op.type = "DELETE" /\ exists ->
                   UpdateDocument(db.documents, id,
                       [db.documents[id] EXCEPT !.deleted_at = TRUE, !.version = version])
              [] OTHER -> db.documents
        \* an INSERT that adds a row sets last_insert_rowid() to the row's rowid;
        \* the upsert's UPDATE branch and a plain UPDATE leave it alone
        rowid == IF op.type = "SET" /\ ~exists THEN NextRowid(db.documents)
                 ELSE afterEvent.last_insert_rowid
    IN  [afterEvent EXCEPT !.documents = docs,
                           !.last_insert_rowid = rowid,
                           !.res = Append(@, [last_row_id |-> rowid,
                                              changes |-> IF op.type = "SET" \/ exists
                                                          THEN 1 ELSE 0])]

RECURSIVE ApplyOperations(_, _, _)
ApplyOperations(db, operations, workspaceId) ==
    IF operations = <<>> THEN db
    ELSE ApplyOperations(ApplyOperation(db, Head(operations), workspaceId),
                         Tail(operations), workspaceId)

\* lines 340-350: the publications prepared for one operation
OperationPayloads(op, version) ==
    LET pubType == IF op.type = "DELETE" THEN "DELETED"
                   ELSE IF op.type = "SET" THEN "CREATED" ELSE "UPDATED"
    IN  Payloads2(pubType, Last(op.path), op.path, version, 0)

RECURSIVE BatchPayloads(_, _)
BatchPayloads(operations, version) ==
    IF operations = <<>> THEN <<>>
    ELSE OperationPayloads(Head(operations), version)
         \o BatchPayloads(Tail(operations), version)

\* the version the batch answers with: batchRes[batchRes.length - 1].meta.last_row_id
BatchLastVersion(batchRes) == Last(batchRes).last_row_id

\* the tombstones once the document statements of operations k.. have run
RECURSIVE TombstonedAfter(_, _, _, _)
TombstonedAfter(ts, operations, res, k) ==
    IF k > Len(operations) THEN ts
    ELSE LET op == operations[k]
             id == Last(op.path)
         IN  TombstonedAfter(
                 IF res[2 * k].changes = 0 \/ op.type = "UPDATE" THEN ts
                 ELSE IF op.type = "DELETE"
                      THEN [ts EXCEPT ![id] = {res[2 * k - 1].last_row_id}]
                 ELSE [ts EXCEPT ![id] = {}],
                 operations, res, k + 1)

\* lines 353-359: env.DB.batch(d1Ops), one transaction
BatchCommit(r) ==
    LET h == handlers[r]
        db == ApplyOperations([events |-> events, documents |-> documents,
                               last_insert_rowid |-> 0, res |-> <<>>],
                              h.operations, h.workspace)
        lastVersion == BatchLastVersion(db.res)
        written == {Last(h.operations[k].path) : k \in
                       {j \in 1..Len(h.operations) : db.res[2 * j].changes = 1}}
    IN
    /\ h.pc = "batchCommit"
    /\ events' = db.events
    /\ documents' = db.documents
    /\ After(r,
          [h EXCEPT !.batchRes = db.res, !.version = lastVersion,
                    !.publishPayloads = BatchPayloads(h.operations, lastVersion),
                    !.pc = "publish"])
    /\ lastSet' = [id \in AllIds |-> IF id \in written THEN {} ELSE lastSet[id]]
    /\ tombstoned' = TombstonedAfter(tombstoned, h.operations, db.res, 1)
    /\ UNCHANGED publications

(***************************************************************************)
(* The SDK client's persistence (IndexedDBPersistence).                     *)
(***************************************************************************)
MaxQueue == 2

\* IndexedDB keys: a string (here a document path) or a generated number
StringKey(path) == [kind |-> "string", n |-> 0, s |-> path]
NumberKey(n) == [kind |-> "number", n |-> n, s |-> <<>>]

\* put on the store 'documents' (keyPath 'path'): { ...data, path: id }
\* replaces the record of that path
DocumentsPut(store, id, data, version) ==
    [p \in DOMAIN store \cup {id} |->
        IF p = id THEN [data |-> data, version |-> version] ELSE store[p]]

\* a store 'queue' whose key is the record's path: a put replaces the
\* record of that path
QueuePutByPath(store, id, item) ==
    [store EXCEPT !.records =
        Append(SelectSeq(@, LAMBDA rec : rec.path # id),
               [id |-> StringKey(id), path |-> id, type |-> item.type, data |-> item.data])]

\* put on the store 'queue' (keyPath 'id', autoIncrement): the record
\* { ...data, path: id } has no member id, so the store generates the next
\* number as its key and adds the record
QueuePut(store, id, item) ==
    [records |-> Append(store.records,
                    [id |-> NumberKey(store.keyGenerator + 1), path |-> id,
                     type |-> item.type, data |-> item.data]),
     keyGenerator |-> store.keyGenerator + 1]

\* delete on the store 'queue': store.delete(key) removes the record whose
\* key (its id) is the key given
QueueDelete(store, key) ==
    [store EXCEPT !.records = SelectSeq(@, LAMBDA rec : rec.id # key)]

\* no SDK call in progress
NoCall ==
    [op |-> "none", pc |-> "", path |-> <<>>, data |-> JUndefined, items |-> <<>>,
     accepted |-> TRUE]

\* no SDK call has resolved yet
NoResult ==
    [op |-> "none", path |-> <<>>, data |-> JUndefined, version |-> 0,
     fromCache |-> FALSE, hasPendingWrites |-> FALSE, threw |-> FALSE]

\* new TelestackClient({ enablePersistence: true, ... }) on an empty
\* IndexedDB, with the network up
NewClient ==
    [online |-> TRUE,
     documents |-> [p \in {} |-> {}],
     queue |-> [records |-> <<>>, keyGenerator |-> 0],
     isProcessingQueue |-> FALSE,
     lastVersion |-> 0,
     call |-> NoCall,
     result |-> NoResult]

(***************************************************************************)
(* The system.                                                             *)
(***************************************************************************)
\* initDatabase on an empty D1 database: both tables exist and are empty.
\* In Spec the broker takes every publication; SpecPublish has the failing
\* publishes.
Init ==
    /\ documents = [d \in {} |-> {}]
    /\ events = <<>>
    /\ publications = EmptyBag
    /\ handlers = [r \in Slots |-> IdleHandler]
    /\ lastSet = [id \in AllIds |-> {}]
    /\ tombstoned = [id \in AllIds |-> {}]
    /\ sent = {}
    /\ client = NewClient

Next ==
    \E r \in Slots :
        \/ AcceptCreate(r)
        \/ AcceptGet(r)
        \/ AcceptPut(r)
        \/ AcceptPatch(r)
        \/ AcceptDelete(r)
        \/ AcceptBatch(r)
        \/ Select(r)
        \/ InsertEventStep(r)
        \/ WriteDoc(r)
        \/ Refetch(r)
        \/ Publish(r)
        \/ BatchSelect(r)
        \/ BatchCommit(r)

Spec == Init /\ [][Next]_vars

(***************************************************************************)
(* Properties of the server.                                               *)
(***************************************************************************)
Max(S) == CHOOSE x \in S : \A y \in S : y <= x

\* the version of the most recent event whose doc_id is id, 0 if there is none
LatestEventVersion(id) ==
    Max({0} \cup {events[i].version : i \in {j \in 1..Len(events) : events[j].doc_id = id}})

\* the handler has run its statement on documents and goes on to answer success
Committed(h) == h.pc \in {"refetch", "publish"}

\* C1: once no request is in flight, every document row's version is the
\* version of the most recent event whose doc_id is the document's id.
C1_RowVersionIsLatestEvent ==
    AtRest => \A id \in DOMAIN documents : documents[id].version = LatestEventVersion(id)

\* C2: of two concurrent PUT, PATCH or DELETE requests for one document that
\* carry the same expectedVersion, at most one gets to write and succeed.
C2_OneWriterPerExpectedVersion ==
    \A r, q \in Slots :
        (/\ r # q
         /\ Committed(handlers[r]) /\ Committed(handlers[q])
         /\ handlers[r].method \in {"PUT", "PATCH", "DELETE"}
         /\ handlers[q].method \in {"PUT", "PATCH", "DELETE"}
         /\ handlers[r].docId = handlers[q].docId
         /\ handlers[r].expectedVersion # {})
        => handlers[r].expectedVersion # handlers[q].expectedVersion

\* C3: when a batch commits, every operation of it that carries
\* expectedVersion finds its document at that version at that moment.
C3_BatchChecksVersionAtCommit ==
    [][\A r \in Slots :
          (handlers[r].pc = "batchCommit" /\ handlers'[r].pc = "publish") =>
              \A k \in 1..Len(handlers[r].operations) :
                  LET op == handlers[r].operations[k]
                      id == Last(op.path)
                  IN  op.expectedVersion # {} =>
                          /\ id \in DOMAIN documents
                          /\ documents[id].version \in op.expectedVersion]_vars

\* C4: a batch request that fails leaves documents, events and the dispatched
\* publications as they were, and a batch commits only if none of its Updates
\* lacks its target document, appending one event per operation.
C4_BatchAllOrNothing ==
    [][\A r \in Slots :
          handlers[r].method = "BATCH" =>
              /\ (\E resp \in sent' : resp.method = "BATCH" /\ resp.status # 200)
                    => UNCHANGED <<documents, events, publications>>
              /\ (handlers[r].pc = "batchCommit" /\ handlers'[r].pc = "publish") =>
                    /\ Len(events') = Len(events) + Len(handlers[r].operations)
                    /\ \A k \in 1..Len(handlers[r].operations) :
                          handlers[r].operations[k].type = "UPDATE" =>
                              Last(handlers[r].operations[k].path) \in DOMAIN documents]_vars

\* C5: a batch that committed operations o1..on appended n events of
\* contiguous increasing versions, the k-th for ok's document, and answers
\* with the version of the event of on.
C5_BatchVersions ==
    \A r \in Slots :
        LET h == handlers[r]
            n == Len(h.operations)
            v(k) == h.batchRes[2 * k - 1].last_row_id
        IN  (h.method = "BATCH" /\ h.pc = "publish") =>
                /\ \A k \in 1..n :
                      /\ v(k) = v(1) + k - 1
                      /\ v(k) \in 1..Len(events)
                      /\ events[v(k)].version = v(k)
                      /\ events[v(k)].doc_id = Last(h.operations[k].path)
                /\ h.version = v(n)

\* C6: events appended earlier have smaller versions than events of the same
\* workspace appended later, and no two events share a version.
C6_EventVersionsIncrease ==
    \A i, j \in 1..Len(events) :
        i < j => /\ events[i].version # events[j].version
                 /\ events[i].workspace_id = events[j].workspace_id
                       => events[i].version < events[j].version

\* two handlers have appended their events one after the other and neither
\* has written its document yet
C6_Witness ==
    /\ \A r \in Slots : handlers[r].pc = "writeDoc"
    /\ Len(events) >= 2

\* C7: no request reads the documents table while the log holds an event
\* whose document row does not carry the event's version.
C7_EventAndRowAtomic ==
    (\E r \in Slots : handlers[r].pc \in {"select", "batchSelect"}) =>
        \A id \in AllIds :
            LatestEventVersion(id) > 0 =>
                /\ id \in DOMAIN documents
                /\ documents[id].version = LatestEventVersion(id)

\* C8: a GET of a document that a Delete tombstoned and no Set has written
\* since answers 404, and a PUT that read the tombstone and writes it leaves
\* the document visible with the PUT's data and a version above the tombstone's.
C8_TombstoneUntilSet ==
    [][/\ \A resp \in sent' :
              (resp.method = "GET" /\ tombstoned[resp.id] # {}) => resp.status = 404
       /\ \A r \in Slots :
              (/\ handlers[r].method = "PUT" /\ handlers[r].pc = "writeDoc"
               /\ Committed(handlers'[r])
               /\ tombstoned[handlers[r].docId] # {}
               /\ handlers[r].doc # {}
               /\ TheOne(handlers[r].doc).version \in tombstoned[handlers[r].docId]) =>
                  LET id == handlers[r].docId IN
                  /\ ~documents'[id].deleted_at
                  /\ JSON_parse(documents'[id].data) = handlers[r].data
                  /\ handlers[r].version > TheOne(tombstoned[id])]_vars

\* C9: a GET of a document whose latest write is a successful PUT's answers
\* 200 with the data the PUT sent and the version the PUT returns, whether the
\* PUT created the document or overwrote a document or a tombstone.
C9_GetAfterSet ==
    \A resp \in sent :
        (resp.method = "GET" /\ resp.sawSet # {}) =>
            /\ resp.status = 200
            /\ resp.data = TheOne(resp.sawSet).data
            /\ resp.version = TheOne(resp.sawSet).version

\* a GET has answered for a document whose latest write is a PUT over a tombstone
C9_Witness ==
    \E resp \in sent :
        /\ resp.method = "GET" /\ resp.status = 200
        /\ resp.sawSet # {}
        /\ TheOne(resp.sawSet).over = "tombstone"

\* the events the request of handler h has appended by the time it answers
Appended(h) ==
    IF h.method = "BATCH" THEN Len(h.batchRes) \div 2
    ELSE IF h.version > 0 THEN 1 ELSE 0

\* C11: a write request that answers success has appended exactly one event
\* per operation it carries, and a write request that answers anything else
\* (denied, conflict, not found, failed; a DELETE that found no row and
\* answers 204 without writing is counted with these) has appended none.
C11_OneEventPerSuccessfulWrite ==
    [][\A r \in Slots :
          (InFlight(handlers[r]) /\ ~InFlight(handlers'[r]) /\ handlers[r].method # "GET") =>
             LET h == handlers[r]
                 resp == TheOne(sent')
                 successful == \/ resp.status \in {200, 201}
                               \/ resp.status = 204 /\ h.doc # {}
             IN  Appended(h) = IF ~successful THEN 0
                               ELSE IF h.method = "BATCH" THEN Len(h.operations)
                               ELSE 1]_vars

\* the publication a Publish step hands to the broker, as a set: empty on
\* every other step
Dispatched == BagToSet(publications' (-) publications)

\* the version a publication carries: its version, or its doc.version where
\* the payload has no version of its own
PubVersion(p) == IF p.version # 0 THEN p.version ELSE p.docVersion

\* C14: publications on one channel are dispatched in increasing version
\* order: a publication handed to the broker carries a version no smaller
\* than that of any publication dispatched on its channel before it (equal
\* versions are let through here: the publications of one batch share one).
C14_ChannelVersionOrder ==
    [][\A p \in Dispatched :
          \A q \in BagToSet(publications) :
             q.channel = p.channel => PubVersion(q) <= PubVersion(p)]_vars

\* C15: every publication carries the version of the event that was appended
\* for the mutation it announces, the event of its own operation also when
\* it is one of several publications of a batch.
C15_PublicationCarriesEventVersion ==
    \A p \in BagToSet(publications) :
        /\ PubVersion(p) \in 1..Len(events)
        /\ events[PubVersion(p)].doc_id = p.id
        /\ events[PubVersion(p)].event_type \in
              CASE p.type = "CREATED" -> {"INSERT"}
                [] p.type = "UPDATED" -> {"SET", "UPDATE"}
                [] p.type = "DELETED" -> {"DELETE"}

\* C16: a publication is dispatched only once the write it announces is in
\* storage (the event in the log and the document row written); a request
\* that answers denied, conflict, not found or failed dispatches none; and
\* the publications of a batch go out in the order of its operations.
C16_PublishAfterCommit ==
    [][\A r \in Slots :
          LET h == handlers[r] IN
          /\ (h.pc = "publish" /\ handlers'[r] # h) =>
                \A p \in Dispatched :
                   /\ p.id \in DOMAIN documents
                   /\ \E i \in 1..Len(events) : events[i].doc_id = p.id
                   /\ h.method = "BATCH" =>
                         LET k == (2 * Len(h.operations) - Len(h.publishPayloads)) \div 2 + 1
                         IN  /\ p.id = Last(h.operations[k].path)
                             /\ p \in
                                    {OperationPayloads(h.operations[k], h.version)[n] : n \in 1..2}
          /\ (InFlight(h) /\ ~InFlight(handlers'[r])
                /\ \E resp \in sent' : resp.status \in {403, 404, 409, 500}) =>
                /\ Dispatched = {}
                /\ h.publishPayloads = <<>>]_vars

(***************************************************************************)
(* Set, then Update, then GET of one document, one request after the       *)
(* other, over nested data and patches.                                    *)
(***************************************************************************)
\* the functions from a subset of the keys K to the values V
Maps(K, V) == UNION {[S -> V] : S \in SUBSET K}

\* the objects with an optional member y (lit or null) and an optional member
\* x (lit, null, or an object with optional members w and z, each lit or null)
RichObjects(lit) ==
    LET leaf == {JLit(lit), JNull}
        xs   == leaf \cup {JObj(n) : n \in Maps({"w", "z"}, leaf)}
    IN  {JObj(m) : m \in {f \in Maps({"x", "y"}, xs) : "y" \in DOMAIN f => f["y"] \in leaf}}

\* PUT /documents/items/a with data d, on the empty database
AcceptSetOf(r) ==
    /\ AtRest /\ events = <<>>
    /\ \E d \in RichObjects("1") :
          After(r, Route(Request("PUT", "items", "a", "alice", d, {}, <<>>),
                         <<"items", "a">>, "select"))
    /\ UNCHANGED <<documents, events, publications, lastSet, tombstoned>>

\* PATCH /documents/items/a with patch p, once the Set has answered
AcceptPatchOf(r) ==
    /\ AtRest /\ Len(events) = 1
    /\ \E p \in RichObjects("2") :
          After(r, Route(Request("PATCH", "items", "a", "alice", p, {}, <<>>),
                         <<"items", "a">>, "select"))
    /\ UNCHANGED <<documents, events, publications, lastSet, tombstoned>>

\* GET /documents/items/a, once the Update has answered
AcceptGetOf(r) ==
    /\ AtRest /\ Len(events) = 2
    /\ After(r, Route(Request("GET", "items", "a", "alice", JUndefined, {}, <<>>),
                      <<"items", "a">>, "select"))
    /\ UNCHANGED <<documents, events, publications, lastSet, tombstoned>>

PatchNext ==
    \E r \in Slots :
        \/ AcceptSetOf(r)
        \/ AcceptPatchOf(r)
        \/ AcceptGetOf(r)
        \/ Select(r)
        \/ InsertEventStep(r)
        \/ WriteDoc(r)
        \/ Refetch(r)
        \/ Publish(r)

SpecPatch == Init /\ [][PatchNext]_vars

\* the data d of the Set and the patch p of the Update, as the log holds them
SetOf == JSON_parse(events[1].payload)
PatchOf == JSON_parse(events[2].payload)

\* res is d with the members of p written over it: a member of p replaces
\* d's, a member of d that p lacks stays, a member that is null in p is gone
Overwrites(d, p, res) ==
    /\ IsObj(res)
    /\ \A k \in DOMAIN d.o \cup DOMAIN p.o :
          IF k \notin DOMAIN p.o THEN k \in DOMAIN res.o /\ res.o[k] = d.o[k]
          ELSE IF p.o[k] = JNull THEN k \notin DOMAIN res.o
          ELSE k \in DOMAIN res.o /\ res.o[k] = p.o[k]
    /\ DOMAIN res.o \subseteq DOMAIN d.o \cup DOMAIN p.o

\* as Overwrites, but a member of p that is an object is merged in the same
\* way into d's member of that key, or into {} if that is not an object
RECURSIVE Merges(_, _, _)
Merges(d, p, res) ==
    /\ IsObj(res)
    /\ \A k \in DOMAIN d.o \cup DOMAIN p.o :
          IF k \notin DOMAIN p.o THEN k \in DOMAIN res.o /\ res.o[k] = d.o[k]
          ELSE IF p.o[k] = JNull THEN k \notin DOMAIN res.o
          ELSE IF IsObj(p.o[k])
               THEN /\ k \in DOMAIN res.o
                    /\ Merges(IF k \in DOMAIN d.o /\ IsObj(d.o[k]) THEN d.o[k]
                              ELSE JObj(EmptyMembers),
                              p.o[k], res.o[k])
          ELSE k \in DOMAIN res.o /\ res.o[k] = p.o[k]
    /\ DOMAIN res.o \subseteq DOMAIN d.o \cup DOMAIN p.o

\* C10 as stated: after SET(d) then PATCH(p) the PATCH returns a version above
\* the SET's and GET returns d with the keys of p written over it, keys of d
\* absent from p kept and keys that are null in p removed.
C10_PatchOverwrites ==
    \A resp \in sent :
        /\ (resp.method = "PATCH" /\ resp.status = 200) => resp.version > events[1].version
        /\ (resp.method = "GET" /\ Len(events) = 2) =>
              /\ resp.status = 200
              /\ Overwrites(SetOf, PatchOf, resp.data)

\* C10 amended: after SET(d) then PATCH(p) the PATCH returns a version above
\* the SET's and GET returns the RFC 7396 merge of p into d: as stated for
\* the keys whose value in p is not an object, and for a key whose value in p
\* is an object the merge of that object into d's value of the key.
C10_PatchMerges ==
    \A resp \in sent :
        /\ (resp.method = "PATCH" /\ resp.status = 200) => resp.version > events[1].version
        /\ (resp.method = "GET" /\ Len(events) = 2) =>
              /\ resp.status = 200
              /\ Merges(SetOf, PatchOf, resp.data)

\* a GET has answered after a Set and an Update whose patch holds an object
\* under a key where the stored data holds an object with another member
C10_Witness ==
    \E resp \in sent :
        /\ resp.method = "GET" /\ resp.status = 200 /\ Len(events) = 2
        /\ "x" \in DOMAIN SetOf.o /\ "x" \in DOMAIN PatchOf.o
        /\ IsObj(SetOf.o["x"]) /\ IsObj(PatchOf.o["x"])
        /\ DOMAIN SetOf.o["x"].o = {"z"}
        /\ DOMAIN PatchOf.o["x"].o = {"w"}
        /\ PatchOf.o["x"].o["w"] # JNull

(***************************************************************************)
(* Requests of two workspaces on one document, one request after the other. *)
(***************************************************************************)
Workspaces == {DefaultWorkspace, "w2"}

\* GET, PUT, PATCH or DELETE /documents/items/a sent by a client of workspace
\* w: the SDK puts its workspaceId in the request's header and body
AcceptIn(r) ==
    /\ AtRest
    /\ Room(1)
    /\ \E method \in {"GET", "PUT", "PATCH", "DELETE"}, w \in Workspaces :
          After(r,
              Route([Request(method, "items", "a", "alice",
                             CASE method = "PUT" -> SetData
                               [] method = "PATCH" -> PatchData
                               [] OTHER -> JUndefined,
                             {}, <<>>) EXCEPT !.workspace = w],
                    <<"items", "a">>, "select"))
    /\ UNCHANGED <<documents, events, publications, lastSet, tombstoned>>

WorkspaceNext ==
    \E r \in {"h1"} :
        \/ AcceptIn(r)
        \/ Select(r)
        \/ InsertEventStep(r)
        \/ WriteDoc(r)
        \/ Refetch(r)
        \/ Publish(r)

SpecWorkspace == Init /\ [][WorkspaceNext]_vars

\* C12: every event carries the workspace_id of the document row its doc_id
\* names, and a request sent under one workspace neither changes a row of
\* another workspace nor gets one returned by GET.
C12_WorkspaceNeverRetargeted ==
    [][/\ \A i \in 1..Len(events') :
             events'[i].doc_id \in DOMAIN documents' =>
                events'[i].workspace_id = documents'[events'[i].doc_id].workspace_id
       /\ \A r \in Slots :
             (InFlight(handlers[r]) /\ handlers'[r] # handlers[r]) =>
                LET h == handlers[r] IN
                /\ \A id \in DOMAIN documents :
                      documents[id].workspace_id # h.workspace => documents'[id] = documents[id]
                /\ \A resp \in sent' :
                      (resp.method = "GET" /\ resp.status = 200) =>
                         documents[h.docId].workspace_id = h.workspace]_vars

(***************************************************************************)
(* GET /documents/<collection>: the list of one collection, over documents *)
(* created under several parents.                                          *)
(***************************************************************************)
\* parentPath as a client sends it: absent, a document, a document of a
\* sub-collection of that document, another document
ParentPaths ==
    { <<>>, <<"users", "u1">>, <<"users", "u1", "items", "a">>, <<"users", "u2">> }

\* PUT /documents/items/<id> with a parentPath in the body
AcceptPutUnder(r) ==
    /\ AtRest
    /\ Room(1)
    /\ \E id \in DocIds, parentPath \in ParentPaths, w \in Workspaces :
          After(r,
              Route([Request("PUT", "items", id, "alice", SetData, {}, <<>>)
                        EXCEPT !.parentPath = parentPath, !.workspace = w],
                    <<"items", id>>, "select"))
    /\ UNCHANGED <<documents, events, publications, lastSet, tombstoned>>

\* GET /documents/items?workspaceId=<w>&parentPath=<parentPath>
AcceptList(r) ==
    /\ AtRest
    /\ \E parentPath \in ParentPaths, w \in Workspaces, auth \in Auths :
          After(r,
              Route([Request("GET", "items", "", auth, JUndefined, {}, <<>>)
                        EXCEPT !.parentPath = parentPath, !.workspace = w],
                    <<"items">>, "list"))
    /\ UNCHANGED <<documents, events, publications, lastSet, tombstoned>>

\* path LIKE prefix || '/%', on paths whose segments hold no LIKE wildcard:
\* the path starts with the segments of prefix and goes on after them
LikePrefix(path, prefix) ==
    Len(path) > Len(prefix) /\ SubSeq(path, 1, Len(prefix)) = prefix

\* lines 511-518: the WHERE clause of the list query
ListWhere(row, collection, workspaceId, parentPath) ==
    /\ row.collection_name = collection
    /\ row.workspace_id = workspaceId
    /\ ~row.deleted_at
    /\ IF parentPath # <<>>
       THEN LikePrefix(row.path, parentPath \o <<collection>>)   \* path LIKE ? || '/<collection>/%'
       ELSE Len(row.path) < 3                                     \* path NOT LIKE '%/%/%'

\* lines 520-521: the SELECT of the list and its response, the rows found
List(r) ==
    LET h == handlers[r]
        results == {id \in DOMAIN documents :
                       ListWhere(documents[id], h.collection, h.workspace, h.parentPath)}
    IN
    /\ h.pc = "list"
    /\ After(r, [Respond(h, 200) EXCEPT !.resData = [t |-> "rows", ids |-> results]])
    /\ UNCHANGED <<documents, events, publications, lastSet, tombstoned>>

ListNext ==
    \E r \in {"h1"} :
        \/ AcceptPutUnder(r)
        \/ AcceptDelete(r)
        \/ AcceptList(r)
        \/ Select(r)
        \/ InsertEventStep(r)
        \/ WriteDoc(r)
        \/ Publish(r)
        \/ List(r)

SpecList == Init /\ [][ListNext]_vars

\* C13: the list of collection C under parent P (or under no parent) returns
\* exactly the documents of the workspace that are not deleted and whose path
\* is P/C/<id> (or C/<id>): no tombstone, no document of a deeper
\* sub-collection, no document of another parent.
C13_ListOneLevel ==
    [][\A r \in Slots :
          (handlers[r].pc = "list" /\ handlers'[r].pc = "idle") =>
             LET h == handlers[r]
                 resp == TheOne(sent')
             IN  resp.data.ids =
                    {id \in DOMAIN documents :
                        /\ ~documents[id].deleted_at
                        /\ documents[id].workspace_id = h.workspace
                        /\ documents[id].path = h.parentPath \o <<h.collection, id>>}]_vars

(***************************************************************************)
(* Writes, one request after the other, with a broker that may fail.       *)
(***************************************************************************)
PublishNext ==
    \E r \in {"h1"} :
        \/ AcceptCreate(r)
        \/ AcceptPut(r)
        \/ AcceptPatch(r)
        \/ AcceptDelete(r)
        \/ AcceptBatch(r)
        \/ Select(r)
        \/ InsertEventStep(r)
        \/ WriteDoc(r)
        \/ Refetch(r)
        \/ BatchSelect(r)
        \/ BatchCommit(r)
        \/ Publish(r)
        \/ PublishFails(r)

SpecPublish == Init /\ [][PublishNext]_vars

\* C17: a publish that fails after the write is committed rolls nothing back
\* and fails nothing: documents and events stay as written, the handler goes
\* on to its next publication, and after the last one the request returns
\* its success response with the version it was assigned.
C17_PublishFailureKeepsWrite ==
    [][\A r \in Slots :
          LET h == handlers[r] IN
          (h.pc = "publish" /\ handlers'[r] # h /\ Dispatched = {}) =>
             /\ UNCHANGED <<documents, events>>
             /\ IF Len(h.publishPayloads) > 1
                THEN handlers'[r].pc = "publish" /\ sent' = {}
                ELSE \E resp \in sent' :
                        /\ resp.status = SuccessStatus(h)
                        /\ resp.status \in {200, 201} => resp.version = h.version]_vars

\* a Set has created a document and answered 201 with version 1 although
\* none of its publications reached the broker
C17_Witness ==
    \E resp \in sent :
        /\ resp.method = "PUT" /\ resp.status = 201 /\ resp.version = 1
        /\ publications = EmptyBag
        /\ Len(events) = 1 /\ resp.id \in DOMAIN documents

(***************************************************************************)
(* Requests on the paths the rules tell apart, one request after the other. *)
(***************************************************************************)
RuleCollections == {"items", "sync", "documents", "storage"}

\* the paths of batch operations: a document, a document of a
\* sub-collection, a path under documents/
RuleOperationPaths ==
    { <<"items", "a">>, <<"users", "u1", "items", "a">>, <<"documents", "a">> }

\* POST /documents/<collection>, or GET or PUT /documents/<collection>/a
AcceptOn(r) ==
    /\ AtRest
    /\ Room(1)
    /\ \E method \in {"GET", "PUT", "POST"}, collection \in RuleCollections, auth \in Auths :
          LET id == IF method = "POST" THEN TheOne(AutoIds) ELSE "a" IN
          /\ method = "POST" => id \notin DOMAIN documents
          /\ After(r,
                Route(Request(method, collection, id, auth,
                              IF method = "GET" THEN JUndefined ELSE SetData, {}, <<>>),
                      IF method = "POST" THEN <<collection>> ELSE <<collection, id>>,
                      IF method = "POST" THEN "insertEvent" ELSE "select"))
    /\ UNCHANGED <<documents, events, publications, lastSet, tombstoned>>

\* POST /documents/batch with one operation
AcceptBatchOn(r) ==
    /\ AtRest
    /\ Room(1)
    /\ \E type \in {"SET", "DELETE"}, path \in RuleOperationPaths, auth \in Auths :
          After(r, Route(Request("BATCH", "batch", "", auth, JUndefined, {},
                                 <<Operation(type, path, FALSE)>>),
                         <<"batch">>, "batchSelect"))
    /\ UNCHANGED <<documents, events, publications, lastSet, tombstoned>>

RulesNext ==
    \E r \in {"h1"} :
        \/ AcceptOn(r)
        \/ AcceptBatchOn(r)
        \/ Select(r)
        \/ InsertEventStep(r)
        \/ WriteDoc(r)
        \/ Publish(r)
        \/ BatchSelect(r)
        \/ BatchCommit(r)

SpecRules == Init /\ [][RulesNext]_vars

\* the path of the URL after /documents: <collection> or <collection>/<id>
UrlPath(method, collection, id) ==
    IF method \in {"POST", "BATCH"} THEN <<collection>> ELSE <<collection, id>>

\* the rules that match the path, by their place in the list
Matching(path) == {i \in 1..Len(rulesConfig) : matchPath(rulesConfig[i].path, path)}

\* the first matching rule decides and no matching rule denies; the rule
\* allows if its expression is `true`, or `auth !== null` with a user
\* signed in, and denies on any other expression (none of them evaluates)
FirstMatchAllows(path, operation, auth) ==
    /\ Matching(path) # {}
    /\ LET first == CHOOSE i \in Matching(path) : \A j \in Matching(path) : i <= j
           expression == Expression(rulesConfig[first], operation)
       IN  \/ expression = "true"
           \/ expression = "auth !== null" /\ auth # NullAuth

ClientSlot == "h1"
\* config.userId, the `sub` of the client's token
ClientAuth == "alice"
ClientData == {SetData, PatchData}
ClientPaths == {<<"items", id>> : id \in DocIds}

server == <<documents, events, publications, handlers, lastSet, tombstoned>>

\* what a resolved call hands to its caller
Resolved(op, path, data, version, fromCache, hasPendingWrites) ==
    [op |-> op, path |-> path, data |-> data, version |-> version,
     fromCache |-> fromCache, hasPendingWrites |-> hasPendingWrites, threw |-> FALSE]
Threw(op, path) == [NoResult EXCEPT !.op = op, !.path = path, !.threw = TRUE]

\* updateLastVersion(v)
updateLastVersion(c, v) == [c EXCEPT !.lastVersion = IF v > @ THEN v ELSE @]

\* processQueue, lines 313-320: the loop is left (all items done, or break) and
\* finally isProcessingQueue = false
EndProcessQueue(c) ==
    [c EXCEPT !.isProcessingQueue = FALSE, !.call = NoCall,
              !.result = [NoResult EXCEPT !.op = "processQueue"]]

\* set, line 647: the optimistic put of { data, version: -1 }, on the way
\* to the PUT
BeginSet(c, op, path, data) ==
    [c EXCEPT !.documents = DocumentsPut(@, path, data, -1),
              !.call.op = op, !.call.pc = "putFetch", !.call.path = path,
              !.call.data = data]

\* set has returned { version } to its caller: the user, or processQueue
\* (lines 305-308), which deletes the item from the queue by its path and
\* goes on to getSnapshot
AfterSet(c, version) ==
    IF c.call.op = "set"
    THEN [c EXCEPT !.call = NoCall,
                   !.result = Resolved("set", c.call.path, c.call.data, version, FALSE, FALSE)]
    ELSE [c EXCEPT !.queue = QueueDelete(@, StringKey(c.call.path)),
                   !.call.pc = "getFetch"]

\* set, lines 667-674: the catch queues the write and returns { version: -1 }
SetCatch(c) ==
    AfterSet([c EXCEPT !.queue = QueuePut(@, c.call.path,
                                     [type |-> "SET", data |-> c.call.data]),
                       !.call.accepted = FALSE],
             -1)

\* set, lines 659-666: the response of the PUT
SetResponse(c, resp) ==
    IF resp.status \in {200, 201}
    THEN AfterSet(
            IF resp.version # 0
            THEN [updateLastVersion(c, resp.version) EXCEPT
                     !.documents = DocumentsPut(@, c.call.path, c.call.data, resp.version)]
            ELSE c,
            resp.version)
    ELSE SetCatch(c)

\* getSnapshot has returned snap (or thrown) to its caller: the user, or
\* processQueue (lines 308-309, 313-315), which puts the snapshot's data and
\* version in the cache and turns to the next item, or breaks if it threw
AfterSnapshot(c, snap) ==
    IF c.call.op = "getSnapshot"
    THEN [c EXCEPT !.call = NoCall, !.result = snap]
    ELSE IF snap.threw THEN EndProcessQueue(c)
    ELSE LET put == [c EXCEPT !.documents =
                        DocumentsPut(@, c.call.path, snap.data, snap.version)]
         IN  IF Len(c.call.items) = 1 THEN EndProcessQueue(put)
             ELSE LET item == c.call.items[2] IN
                  BeginSet([put EXCEPT !.call.items = Tail(@)],
                           "processQueue", item.path, item.data)

\* asyncGetSnapshot, lines 626-633: the catch answers from the cache
SnapshotCatch(c) ==
    AfterSnapshot(c,
        IF c.call.path \in DOMAIN c.documents
        THEN Resolved("getSnapshot", c.call.path, c.documents[c.call.path].data,
                      c.documents[c.call.path].version, TRUE, TRUE)
        ELSE Threw("getSnapshot", c.call.path))

\* asyncGetSnapshot, lines 616-625: the response of the GET
SnapshotResponse(c, resp) ==
    IF resp.status = 404
    THEN AfterSnapshot(c, Resolved("getSnapshot", c.call.path, JNull, 0, FALSE, FALSE))
    ELSE IF resp.status # 200 THEN SnapshotCatch(c)
    ELSE AfterSnapshot(
            IF resp.version # 0
            THEN [updateLastVersion(c, resp.version) EXCEPT
                     !.documents = DocumentsPut(@, c.call.path, resp.data, resp.version)]
            ELSE c,
            Resolved("getSnapshot", c.call.path, resp.data, resp.version, FALSE, FALSE))

\* docRef.set(data) is called
Set ==
    /\ client.call.op = "none"
    /\ \E path \in ClientPaths, data \in ClientData :
          client' = BeginSet(client, "set", path, data)
    /\ UNCHANGED <<server, sent>>

\* docRef.getSnapshot() is called
GetSnapshot ==
    /\ client.call.op = "none"
    /\ \E path \in ClientPaths :
          client' = [client EXCEPT !.call.op = "getSnapshot", !.call.pc = "getFetch",
                                   !.call.path = path]
    /\ UNCHANGED <<server, sent>>

\* processQueue() is called (the 5 s timer, the broker's 'connected' event):
\* lines 284-289, and with items in the queue the set of the first one
ProcessQueue ==
    /\ client.call.op = "none"
    /\ client' =
          IF client.isProcessingQueue \/ client.queue.records = <<>>
          THEN [client EXCEPT !.result = [NoResult EXCEPT !.op = "processQueue"]]
          ELSE LET item == client.queue.records[1] IN
               BeginSet([client EXCEPT !.isProcessingQueue = TRUE,
                                       !.call.items = client.queue.records],
                        "processQueue", item.path, item.data)
    /\ UNCHANGED <<server, sent>>

\* set's authFetch of the PUT: the request reaches the server, or fetch
\* throws and the catch queues the write
PutFetch ==
    /\ client.call.pc = "putFetch"
    /\ IF client.online
       THEN /\ Room(1)
            /\ handlers[ClientSlot].pc = "idle"
            /\ Handled(ClientSlot,
                  Route(Request("PUT", client.call.path[Len(client.call.path) - 1],
                                Last(client.call.path), ClientAuth,
                                client.call.data, {}, <<>>),
                        client.call.path, "select"))
            /\ client' = [client EXCEPT !.call.pc = "putWait"]
            /\ UNCHANGED <<documents, events, publications, lastSet, tombstoned>>
       ELSE /\ Len(client.queue.records) < MaxQueue
            /\ client' = SetCatch(client)
            /\ UNCHANGED <<server, sent>>

\* asyncGetSnapshot's authFetch of the GET: the request reaches the server,
\* or fetch throws and the catch answers from the cache
GetFetch ==
    /\ client.call.pc = "getFetch"
    /\ IF client.online
       THEN /\ handlers[ClientSlot].pc = "idle"
            /\ Handled(ClientSlot,
                  Route(Request("GET", client.call.path[Len(client.call.path) - 1],
                                Last(client.call.path), ClientAuth,
                                JUndefined, {}, <<>>),
                        client.call.path, "select"))
            /\ client' = [client EXCEPT !.call.pc = "getWait"]
            /\ UNCHANGED <<documents, events, publications, lastSet, tombstoned>>
       ELSE /\ client' = SnapshotCatch(client)
            /\ UNCHANGED <<server, sent>>

\* the server's response reaches the call that awaits it
Receive ==
    /\ client.call.pc \in {"putWait", "getWait"}
    /\ sent # {}
    /\ client.call.pc = "putWait" => Len(client.queue.records) < MaxQueue
    /\ client' = IF client.call.pc = "putWait"
                 THEN SetResponse(client, TheOne(sent))
                 ELSE SnapshotResponse(client, TheOne(sent))
    /\ sent' = {}
    /\ UNCHANGED server

\* the network goes away or comes back
NetworkChange ==
    /\ client' = [client EXCEPT !.online = ~@]
    /\ UNCHANGED <<server, sent>>

ClientNext ==
    \/ Set
    \/ GetSnapshot
    \/ ProcessQueue
    \/ PutFetch
    \/ GetFetch
    \/ Receive
    \/ NetworkChange
    \/ Select(ClientSlot)
    \/ InsertEventStep(ClientSlot)
    \/ WriteDoc(ClientSlot)
    \/ Publish(ClientSlot)

SpecClient == Init /\ [][ClientNext]_vars

\* the records of the queue whose path is path
QueuedFor(records, path) == Cardinality({i \in 1..Len(records) : records[i].path = path})

\* C19: with persistence enabled and the network unavailable, set(d) resolves
\* with version -1, leaves d with version -1 in the cache and has added
\* exactly one queue entry, for its path; and a getSnapshot that follows it
\* with the network still unavailable returns d with version -1 and
\* hasPendingWrites = true.
C19_OfflineSet ==
    [][LET c == client.call IN
       /\ (c.op = "set" /\ c.pc = "putFetch" /\ ~client.online /\ client'.call.op = "none") =>
             /\ client'.result = Resolved("set", c.path, c.data, -1, FALSE, FALSE)
             /\ client'.documents[c.path] = [data |-> c.data, version |-> -1]
             /\ Len(client'.queue.records) = Len(client.queue.records) + 1
             /\ QueuedFor(client'.queue.records, c.path)
                   = QueuedFor(client.queue.records, c.path) + 1
             /\ Last(client'.queue.records).type = "SET"
             /\ Last(client'.queue.records).data = c.data
       /\ (/\ c.op = "getSnapshot" /\ c.pc = "getFetch" /\ ~client.online
           /\ client'.call.op = "none"
           /\ client.result.op = "set" /\ client.result.version = -1
           /\ client.result.path = c.path) =>
             client'.result = Resolved("getSnapshot", c.path, client.result.data, -1,
                                       TRUE, TRUE)]_vars

\* offline, a set of items/a has been queued while the queue held a write of
\* that path already, and the getSnapshot after it has answered from the
\* cache with the set's data
C19_Witness ==
    /\ ~client.online
    /\ client.result = Resolved("getSnapshot", <<"items", "a">>, PatchData, -1, TRUE, TRUE)
    /\ Len(client.queue.records) = 2
    /\ client.queue.records[1].path = <<"items", "a">>
    /\ client.queue.records[1].data = SetData
    /\ client.queue.records[2].path = <<"items", "a">>
    /\ client.queue.records[2].data = PatchData
    /\ events = <<>>

\* C20: once a drain of the queue has run with the network up and the server
\* has accepted every queued write, the queue is empty (so that later drains
\* send nothing) and no cache entry is left at the version -1: each carries
\* the positive version the server gave it.
C20_DrainEmptiesQueue ==
    [][(/\ client.call.op = "processQueue" /\ client'.call.op = "none"
        /\ client.call.accepted
        /\ client.call.pc = "getWait" /\ \E resp \in sent : resp.status = 200) =>
          /\ client'.queue.records = <<>>
          /\ \A path \in DOMAIN client'.documents : client'.documents[path].version > 0]_vars

\* C21: a drain replays the queued writes one at a time in the order they
\* were queued; when the replay of an entry fails the drain stops there,
\* that entry and the later ones stay in the queue as they were, and the
\* drain sends nothing more.
C21_DrainStopsAtFailure ==
    [][LET c == client.call IN
       c.op = "processQueue" =>
          \* a PUT goes out: for the oldest entry not yet replayed, and only
          \* while no replay of this drain has failed
          /\ (c.pc = "putFetch" /\ client'.call.pc = "putWait") =>
                /\ c.accepted
                /\ c.path = c.items[1].path /\ c.data = c.items[1].data
                /\ \E k \in 1..Len(client.queue.records) :
                      SubSeq(client.queue.records, k, k + Len(c.items) - 1) = c.items
          \* the fetch of the PUT fails: the drain is over, the queue as it was
          /\ (c.pc = "putFetch" /\ ~client.online /\ client'.online = client.online) =>
                /\ client'.call.op = "none"
                /\ client'.queue.records = client.queue.records
          \* after a failed replay no request is sent
          /\ (~c.accepted /\ c.pc = "getFetch") => client'.call.pc # "getWait"]_vars

\* C22: a snapshot handed to the caller of getSnapshot has hasPendingWrites
\* true exactly when it is served from the cache and its value comes from a
\* write still in the queue or its cached version is -1; a snapshot served
\* from the cache has fromCache true, one served by the server has fromCache
\* false and no pending writes.
C22_SnapshotMetadata ==
    [][(client.call.op = "getSnapshot" /\ client'.call.op = "none" /\ ~client'.result.threw) =>
          LET snap == client'.result
              served == client.call.pc = "getWait" /\ TheOne(sent).status \in {200, 404}
              queued == \E k \in 1..Len(client.queue.records) :
                           /\ client.queue.records[k].path = snap.path
                           /\ client.queue.records[k].data = snap.data
          IN  /\ snap.fromCache = ~served
              /\ served => ~snap.hasPendingWrites
              /\ ~served => (snap.hasPendingWrites <=> (queued \/ snap.version = -1))]_vars

(***************************************************************************)
(* The same client writing where the rules let it (items/a) and where they *)
(* refuse every write (documents/a, rule documents/{path=**}).             *)
(***************************************************************************)
\* docRef.set(data) is called on one of the two documents
SetAnywhere ==
    /\ client.call.op = "none"
    /\ \E path \in {<<"items", "a">>, <<"documents", "a">>} :
          client' = BeginSet(client, "set", path, SetData)
    /\ UNCHANGED <<server, sent>>

RejectedNext ==
    \/ SetAnywhere
    \/ ProcessQueue
    \/ PutFetch
    \/ GetFetch
    \/ Receive
    \/ NetworkChange
    \/ Select(ClientSlot)
    \/ InsertEventStep(ClientSlot)
    \/ WriteDoc(ClientSlot)
    \/ Publish(ClientSlot)

SpecRejected == Init /\ [][RejectedNext]_vars

\* C23: a write the server answers with 403 is handed to the caller of set
\* as an error and is not queued; only a fetch that fails for want of the
\* network adds a write to the queue.
C23_RejectedWriteSurfaced ==
    [][/\ (/\ client.call.op = "set" /\ client.call.pc = "putWait"
           /\ sent # {} /\ client'.call.op = "none"
           /\ TheOne(sent).status = 403) =>
             /\ client'.result = Threw("set", client.call.path)
             /\ client'.queue = client.queue
       /\ Len(client'.queue.records) > Len(client.queue.records) =>
             client.call.pc = "putFetch" /\ ~client.online]_vars

(***************************************************************************)
(* TelestackClient.runTransaction and Transaction: the caller's function   *)
(* reads a document through the transaction and stages a Set with the      *)
(* snapshot's version (or stages it unread, or throws), commit posts the   *)
(* staged operations as a batch, and between the client's requests another *)
(* client writes the documents.                                            *)
(***************************************************************************)
MaxRetries == 2

\* an Error as the catch of runTransaction looks at it: its message, a text
\* of words, and its status (0: it has none)
Error(message, status) == [message |-> message, status |-> status]

\* what the caller's function may throw by itself
UserErrors == {Error(<<"insufficient", "funds">>, 0),
               Error(<<"Conflict", "of", "interest">>, 0)}

TransactionPaths == {<<"items", "a">>, <<"documents", "a">>}

\* e.message.includes("Conflict"), on a text of words
includes(message, word) == \E i \in 1..Len(message) : message[i] = word

\* the text of a response that is not ok: lines 270 and 311 (403), 304
\* (409), 366 (500, error.message)
ResponseText(resp, path) ==
    IF resp.status = 409 THEN <<"Version", "Conflict", "for">> \o path
    ELSE IF resp.status = 403
    THEN IF resp.method = "BATCH" THEN <<"Permission", "Denied", "for">> \o path
         ELSE <<"Permission", "Denied">>
    ELSE <<"error">>

\* runTransaction has returned or thrown: what its caller sees, with the
\* number of times the caller's function was invoked
Settled(c, threw, error) ==
    [c EXCEPT !.call = NoCall,
              !.result = [op |-> "runTransaction", threw |-> threw, error |-> error,
                          invoked |-> c.call.invoked, maxRetries |-> c.call.maxRetries]]

TransactionFailed == Error(<<"Transaction", "failed", "after", "retries", "due", "to",
                             "persistent", "conflicts.">>, 0)

\* lines 252-253 and 274: the test of the while loop, a new Transaction for
\* the next attempt (the backoff's timer is the time before it is invoked)
\* or the throw after the loop
Attempt(c) ==
    IF c.call.retries < c.call.maxRetries
    THEN [c EXCEPT !.call.pc = "updateFunction", !.call.operations = <<>>]
    ELSE Settled(c, TRUE, TransactionFailed)

\* lines 258-271: the catch
Catch(c, e) ==
    IF includes(e.message, "Conflict") \/ e.status = 409
    THEN Attempt([c EXCEPT !.call.retries = @ + 1])
    ELSE Settled(c, TRUE, e)

\* client.runTransaction(updateFunction, maxRetries) is called
RunTransaction ==
    /\ client.call.op = "none"
    /\ \E maxRetries \in 0..MaxRetries :
          client' = Attempt([client EXCEPT !.call =
                         [op |-> "runTransaction", pc |-> "", maxRetries |-> maxRetries,
                          retries |-> 0, invoked |-> 0, path |-> <<>>,
                          operations |-> <<>>]])
    /\ UNCHANGED <<server, sent>>

\* line 256: updateFunction(transaction) is invoked; it throws, or it stages
\* transaction.set(docRef, data) unread, or it calls transaction.get(docRef),
\* whose GET reaches the server
UpdateFunction ==
    /\ client.call.pc = "updateFunction"
    /\ handlers[ClientSlot].pc = "idle"
    /\ LET c == [client EXCEPT !.call.invoked = @ + 1] IN
       \/ /\ \E e \in UserErrors : client' = Catch(c, e)
          /\ UNCHANGED <<server, sent>>
       \/ /\ \E path \in TransactionPaths :
                client' = [c EXCEPT !.call.pc = "commit", !.call.path = path,
                                    !.call.operations =
                                       <<[type |-> "SET", path |-> path, data |-> SetData,
                                          expectedVersion |-> {}]>>]
          /\ UNCHANGED <<server, sent>>
       \/ /\ \E path \in TransactionPaths :
                /\ client' = [c EXCEPT !.call.pc = "getWait", !.call.path = path]
                /\ Handled(ClientSlot,
                      Route(Request("GET", path[Len(path) - 1], Last(path), ClientAuth,
                                    JUndefined, {}, <<>>),
                            path, "select"))
          /\ UNCHANGED <<documents, events, publications, lastSet, tombstoned>>

\* transaction.get's snapshot arrives (asyncGetSnapshot, lines 616-625 and
\* 626-632 with nothing cached) and the function stages
\* transaction.set(docRef, data, snapshot): expectedVersion is snapshot.version
Staged ==
    /\ client.call.op = "runTransaction" /\ client.call.pc = "getWait"
    /\ sent # {}
    /\ LET resp == TheOne(sent)
           version == IF resp.status = 404 THEN 0 ELSE resp.version
       IN  client' =
              IF resp.status \in {200, 404}
              THEN [(IF resp.status = 200 /\ resp.version # 0
                     THEN updateLastVersion(client, resp.version) ELSE client)
                    EXCEPT !.call.pc = "commit",
                           !.call.operations =
                              <<[type |-> "SET", path |-> client.call.path,
                                 data |-> SetData, expectedVersion |-> {version}]>>]
              ELSE Catch(client, Error(ResponseText(resp, client.call.path), 0))
    /\ sent' = {}
    /\ UNCHANGED server

\* Transaction.commit, lines 871-876: the batch is posted
Commit ==
    /\ client.call.op = "runTransaction" /\ client.call.pc = "commit"
    /\ handlers[ClientSlot].pc = "idle"
    /\ Room(Len(client.call.operations))
    /\ Handled(ClientSlot,
          Route(Request("BATCH", "batch", "", ClientAuth, JUndefined, {},
                        client.call.operations),
                <<"batch">>, "batchSelect"))
    /\ client' = [client EXCEPT !.call.pc = "commitWait"]
    /\ UNCHANGED <<documents, events, publications, lastSet, tombstoned>>

\* Transaction.commit, lines 878-887, and lines 257-258 of runTransaction:
\* the response of the batch
Committed409 == Error(<<"Conflict">>, 409)
CommitResponse ==
    /\ client.call.op = "runTransaction" /\ client.call.pc = "commitWait"
    /\ sent # {}
    /\ LET resp == TheOne(sent) IN
       client' =
          IF resp.status = 409 THEN Catch(client, Committed409)
          ELSE IF resp.status \notin {200, 201}
          THEN Catch(client, Error(ResponseText(resp, client.call.path), 0))
          ELSE Settled(IF resp.version # 0 THEN updateLastVersion(client, resp.version)
                       ELSE client,
                       FALSE, Error(<<>>, 0))
    /\ sent' = {}
    /\ UNCHANGED server

\* another client's PUT, while this client awaits no response
OtherPut ==
    /\ client.call.pc \notin {"putWait", "getWait", "commitWait", "syncWait"}
    /\ AcceptPut(ClientSlot)

TransactionNext ==
    \/ RunTransaction
    \/ UpdateFunction
    \/ Staged
    \/ Commit
    \/ CommitResponse
    \/ OtherPut
    \/ Select(ClientSlot)
    \/ InsertEventStep(ClientSlot)
    \/ WriteDoc(ClientSlot)
    \/ Publish(ClientSlot)
    \/ BatchSelect(ClientSlot)
    \/ BatchCommit(ClientSlot)

SpecTransaction == Init /\ [][TransactionNext]_vars

\* the error that ends the step of a transaction, if the step ends in one:
\* what the caller's function threw by itself, or the failed response
Thrown ==
    LET c == client.call IN
    IF c.pc \in {"getWait", "commitWait"} /\ sent # {}
    THEN IF TheOne(sent).status \in {200, 201} \/ (c.pc = "getWait" /\ TheOne(sent).status = 404)
         THEN {}
         ELSE {TheOne(sent).status}
    ELSE IF c.pc = "updateFunction" /\ client' # client
                                    /\ client'.call.pc \notin {"commit", "getWait"}
         THEN {0}
         ELSE {}

\* C24: runTransaction invokes the caller's function at most maxRetries
\* times; it invokes it again only after a commit answered with 409; any
\* other error is thrown to the caller in the attempt where it arises; and
\* when the last attempt allowed conflicts too, the call fails with the
\* error of persistent conflicts.
C24_RunTransactionBounded ==
    [][client.call.op = "runTransaction" =>
          LET c == client.call
              conflict == c.pc = "commitWait" /\ Thrown = {409}
              over == client'.call.op = "none"
          IN  /\ ~over => client'.call.invoked <= c.maxRetries
              /\ over => client'.result.invoked <= c.maxRetries
              /\ (~over /\ client'.call.retries = c.retries + 1) => conflict
              /\ (Thrown # {} /\ ~conflict) =>
                    /\ over /\ client'.result.threw
                    /\ client'.result.error # TransactionFailed
                    /\ client'.result.invoked = c.invoked + (IF c.pc = "updateFunction" THEN 1 ELSE 0)
              /\ (conflict /\ c.retries + 1 >= c.maxRetries) =>
                    /\ over /\ client'.result.threw
                    /\ client'.result.error = TransactionFailed
                    /\ client'.result.invoked = c.maxRetries]_vars

(***************************************************************************)
(* Query.onSnapshot: a live query on the collection `items` without        *)
(* filters, with or without a limit, fed by the broker with the            *)
(* publications of the channel collection:items, each at least once, while *)
(* other clients write and delete the documents.                           *)
(***************************************************************************)
MaxDeliveries == 3
QueryLimit == 1

\* lines 445-505, GET /documents/query without filters and ORDER BY: the rows
\* of the workspace that are not deleted, LIMIT ? of them (which ones is not
\* fixed without an ORDER BY) 
SecureQuery(r) ==
    LET h == handlers[r]
        rows == {id \in DOMAIN documents :
                    documents[id].workspace_id = h.workspace /\ ~documents[id].deleted_at}
        limit == IF h.data = JUndefined THEN 100 ELSE h.data.n
    IN
    /\ h.pc = "query"
    /\ \E results \in SUBSET rows :
          /\ Cardinality(results) = IF Cardinality(rows) < limit THEN Cardinality(rows) ELSE limit
          /\ After(r, [Respond(h, 200) EXCEPT !.resData = [t |-> "rows", ids |-> results]])
    /\ UNCHANGED <<documents, events, publications, lastSet, tombstoned>>

\* Query.get, lines 386-399: the GET of the query, `limit` in the URL if
\* limitCount is set
QueryGet(limited) ==
    /\ handlers[ClientSlot].pc = "idle"
    /\ Handled(ClientSlot,
          Route(Request("GET", "query", "", ClientAuth,
                        IF limited THEN [t |-> "limit", n |-> QueryLimit] ELSE JUndefined,
                        {}, <<>>),
                <<"query">>, "query"))
    /\ UNCHANGED <<documents, events, publications, lastSet, tombstoned>>

\* query.onSnapshot(callback), lines 461-519: the subscription and the
\* initial fetch; docsCache and the list last handed to callback are sets of
\* document ids here
OnSnapshot ==
    /\ client.call.op = "none"
    /\ \E limited \in BOOLEAN :
          /\ client' = [client EXCEPT !.call =
                           [op |-> "onSnapshot", pc |-> "getWait", limited |-> limited,
                            docsCache |-> {}, delivered |-> {}, called |-> FALSE,
                            debounceTimer |-> FALSE, deliveries |-> 0, received |-> {},
                            event |-> {}, docs |-> {}, disposed |-> FALSE]]
          /\ QueryGet(limited)

\* Query.get, lines 398-401: the response of the query arrives; get goes on
\* to await its body and the puts of the documents in the local cache
QueryResponse ==
    /\ client.call.op = "onSnapshot" /\ client.call.pc = "getWait"
    /\ sent # {}
    /\ client' = [client EXCEPT !.call.pc = "getJson",
                                !.call.docs = TheOne(sent).data.ids]
    /\ sent' = {}
    /\ UNCHANGED server

\* lines 411 with 491-493, 505-507 and 519-522: get resolves with the
\* documents of the query, docsCache = docs and callback(docs)
Fetched ==
    /\ client.call.op = "onSnapshot" /\ client.call.pc = "getJson"
    /\ client' = [client EXCEPT !.call.pc = "listening",
                                !.call.docsCache = client.call.docs,
                                !.call.delivered = client.call.docs,
                                !.call.called = TRUE]
    /\ UNCHANGED <<server, sent>>

\* lines 473-516: the handler of a publication of the channel, once the
\* query's get has resolved or, for a query without limit, while the initial
\* get awaits the body of its response
Publication ==
    /\ client.call.op = "onSnapshot" /\ ~client.call.disposed
    /\ \/ client.call.pc = "listening"
       \/ client.call.pc = "getJson" /\ ~client.call.limited
    /\ client.call.deliveries < MaxDeliveries
    /\ \E event \in BagToSet(publications) :
          /\ event.channel = Channel("collection", <<"items">>)
          /\ LET c == [(IF event.version # 0 THEN updateLastVersion(client, event.version)
                        ELSE client)
                       EXCEPT !.call.deliveries = @ + 1, !.call.event = {event},
                              !.call.received = @ \cup {event}]
                 refetch == /\ event.type \in {"CREATED", "SET", "UPDATED"}
                            /\ c.call.limited
             IN  IF refetch
                 THEN /\ client' = [c EXCEPT !.call.pc = "getWait"]
                      /\ QueryGet(TRUE)
                 ELSE /\ client' =
                            [c EXCEPT
                               !.call.docsCache =
                                  IF event.type \in {"CREATED", "SET"} THEN @ \cup {event.id}
                                  ELSE IF event.type = "DELETED" THEN @ \ {event.id}
                                  ELSE @,
                               !.call.debounceTimer = @ \/ ~c.call.limited]
                      /\ UNCHANGED <<server, sent>>

\* lines 468-471: the debounce timer fires, callback([...this.docsCache])
DebouncedCallback ==
    /\ client.call.op = "onSnapshot" /\ client.call.debounceTimer
    /\ client' = [client EXCEPT !.call.debounceTimer = FALSE,
                                !.call.delivered = client.call.docsCache,
                                !.call.called = TRUE]
    /\ UNCHANGED <<server, sent>>

\* another client's DELETE, while this client awaits no response
OtherDelete ==
    /\ client.call.pc \notin {"putWait", "getWait", "commitWait", "syncWait"}
    /\ AcceptDelete(ClientSlot)

\* lines 525-529: the function onSnapshot returned is called; the
\* subscription and its listeners are removed and the debounce timer cleared
Dispose ==
    /\ client.call.op = "onSnapshot" /\ ~client.call.disposed
    /\ client' = [client EXCEPT !.call.disposed = TRUE, !.call.debounceTimer = FALSE]
    /\ UNCHANGED <<server, sent>>

LiveNext ==
    \/ OnSnapshot
    \/ QueryResponse
    \/ Fetched
    \/ Publication
    \/ DebouncedCallback
    \/ Dispose
    \/ OtherPut
    \/ OtherDelete
    \/ Select(ClientSlot)
    \/ InsertEventStep(ClientSlot)
    \/ WriteDoc(ClientSlot)
    \/ Publish(ClientSlot)
    \/ SecureQuery(ClientSlot)

SpecLive == Init /\ [][LiveNext]_vars

\* C25: a publication whose version is not above the workspace version the
\* client has seen last is ignored by a live query: the result set stays as
\* it is, nothing is delivered to the subscriber and nothing is fetched.
C25_StalePublicationIgnored ==
    [][(/\ client.call.op = "onSnapshot"
        /\ client'.call.deliveries = client.call.deliveries + 1
        /\ TheOne(client'.call.event).version # 0
        /\ TheOne(client'.call.event).version <= client.lastVersion) =>
          /\ client'.call.docsCache = client.call.docsCache
          /\ client'.call.debounceTimer = client.call.debounceTimer
          /\ client'.call.pc = client.call.pc]_vars

\* C26: once the writes have ended, every publication has reached the live
\* query with a limit and the query awaits nothing, the list it delivered
\* last is the result of the query on the server.
C26_LimitedQueryRefetched ==
    (/\ client.call.op = "onSnapshot" /\ client.call.limited
     /\ client.call.pc = "listening"
     /\ handlers[ClientSlot].pc = "idle"
     /\ \A p \in BagToSet(publications) :
           p.channel = Channel("collection", <<"items">>) => p \in client.call.received) =>
       LET rows == {id \in DOMAIN documents : ~documents[id].deleted_at} IN
       /\ client.call.delivered \subseteq rows
       /\ Cardinality(client.call.delivered)
             = IF Cardinality(rows) < QueryLimit THEN Cardinality(rows) ELSE QueryLimit

(***************************************************************************)
(* TelestackClient.sync and the server's SYNC route: a client without      *)
(* subscriptions (every publication passes it by) that writes documents    *)
(* and calls sync(), while other clients write, delete and commit batches  *)
(* between its requests.                                                   *)
(***************************************************************************)
\* lines 434-441: SELECT * FROM events WHERE workspace_id = ? AND version > ?
\* ORDER BY version ASC LIMIT 1000, each payload parsed
SyncChanges(evs, workspaceId, sinceVersion) ==
    LET results == SelectSeq(evs, LAMBDA e : e.workspace_id = workspaceId
                                             /\ e.version > sinceVersion)
    IN  [i \in 1..(IF Len(results) < 1000 THEN Len(results) ELSE 1000) |->
            [results[i] EXCEPT !.payload = JSON_parse(@)]]

\* GET /documents/sync?workspaceId=&since=, lines 430-441
Sync(r) ==
    LET h == handlers[r] IN
    /\ h.pc = "sync"
    /\ After(r, [Respond(h, 200) EXCEPT
                    !.resData = [t |-> "changes",
                                 changes |-> SyncChanges(events, h.workspace, h.data.n)]])
    /\ UNCHANGED <<documents, events, publications, lastSet, tombstoned>>

\* client.sync(), lines 195-199: GET /documents/sync with since = lastVersion
SyncFetch ==
    /\ client.call.op = "none"
    /\ handlers[ClientSlot].pc = "idle"
    /\ client' = [client EXCEPT !.call.op = "sync", !.call.pc = "syncWait"]
    /\ Handled(ClientSlot,
          Route(Request("GET", "sync", "", ClientAuth,
                        [t |-> "since", n |-> client.lastVersion], {}, <<>>),
                <<"sync">>, "sync"))
    /\ UNCHANGED <<documents, events, publications, lastSet, tombstoned>>

\* client.sync(), lines 200-213: the changes arrive; lastVersion becomes the
\* largest version among them if that is larger; a response that is not ok
\* gives no changes
SyncResponse ==
    /\ client.call.pc = "syncWait"
    /\ sent # {}
    /\ LET resp == TheOne(sent)
           changes == IF resp.status = 200 THEN resp.data.changes ELSE <<>>
           latest == Max({client.lastVersion} \cup {changes[i].version : i \in DOMAIN changes})
       IN  client' = [client EXCEPT !.lastVersion = latest, !.call = NoCall,
                                    !.result = [NoResult EXCEPT !.op = "sync",
                                                                !.data = changes]]
    /\ sent' = {}
    /\ UNCHANGED server

\* another client's batch, while this client awaits no response
OtherBatch ==
    /\ client.call.pc \notin {"putWait", "getWait", "commitWait", "syncWait"}
    /\ AcceptBatch(ClientSlot)

SyncNext ==
    \/ Set
    \/ PutFetch
    \/ Receive
    \/ SyncFetch
    \/ SyncResponse
    \/ OtherPut
    \/ OtherDelete
    \/ OtherBatch
    \/ Select(ClientSlot)
    \/ InsertEventStep(ClientSlot)
    \/ WriteDoc(ClientSlot)
    \/ Publish(ClientSlot)
    \/ BatchSelect(ClientSlot)
    \/ BatchCommit(ClientSlot)
    \/ Sync(ClientSlot)

SpecSync == Init /\ [][SyncNext]_vars

\* the store after the first n changes are replayed onto an empty one:
\* INSERT and SET replace the data, UPDATE merges the payload into it, DELETE
\* removes the document
RECURSIVE Replay(_, _)
Replay(changes, n) ==
    IF n = 0 THEN [id \in {} |-> {}]
    ELSE LET store == Replay(changes, n - 1)
             e == changes[n]
             old == IF e.doc_id \in DOMAIN store THEN store[e.doc_id].data
                    ELSE JObj(EmptyMembers)
         IN  IF e.event_type = "DELETE"
             THEN [id \in DOMAIN store \ {e.doc_id} |-> store[id]]
             ELSE [id \in DOMAIN store \cup {e.doc_id} |->
                      IF id # e.doc_id THEN store[id]
                      ELSE [data |-> IF e.event_type = "UPDATE"
                                     THEN MergePatch(old, e.payload) ELSE e.payload,
                            version |-> e.version]]

\* C27: with no request in flight, the replay of sync(since = 0) onto an
\* empty store gives exactly the documents of the server that are not
\* deleted, with their data and versions.
C27_ReplayReproducesDocuments ==
    AtRest =>
       LET changes == SyncChanges(events, DefaultWorkspace, 0) IN
       Replay(changes, Len(changes))
          = [id \in {d \in DOMAIN documents : ~documents[d].deleted_at} |->
                [data |-> JSON_parse(documents[id].data),
                 version |-> documents[id].version]]

\* C28: the sync cursor lastVersion is never moved past an event of the
\* client's workspace that the client has not been given: whenever it goes
\* up, every event between the old and the new value is in the response of
\* sync() that moves it, or is the client's own write whose response does.
C28_CursorSkipsNoEvent ==
    [][client'.lastVersion > client.lastVersion =>
          \A i \in 1..Len(events) :
             (/\ events[i].workspace_id = DefaultWorkspace
              /\ events[i].version > client.lastVersion
              /\ events[i].version <= client'.lastVersion) =>
                IF client.call.pc = "syncWait"
                THEN \E k \in DOMAIN TheOne(sent).data.changes :
                        TheOne(sent).data.changes[k].version = events[i].version
                ELSE events[i].version = TheOne(sent).version]_vars

(***************************************************************************)
(* The references of the SDK: client.doc(path), client.collection(path),   *)
(* CollectionReference.doc(id) and DocumentReference.collection(name), on  *)
(* paths that are texts of characters.                                     *)
(***************************************************************************)
MaxPathLen == 4
MaxSegments == 4
Chars == {"u", "p", "/"}
Names == {<<"u">>, <<"p", "u">>}

\* path.split('/')
RECURSIVE split(_)
split(s) ==
    IF \A i \in 1..Len(s) : s[i] # "/" THEN <<s>>
    ELSE LET i == CHOOSE k \in 1..Len(s) : s[k] = "/" /\ \A j \in 1..(k - 1) : s[j] # "/"
         IN  <<SubSeq(s, 1, i - 1)>> \o split(SubSeq(s, i + 1, Len(s)))

\* parts.join('/')
RECURSIVE join(_)
join(parts) ==
    IF parts = <<>> THEN <<>>
    ELSE IF Len(parts) = 1 THEN parts[1]
    ELSE parts[1] \o <<"/">> \o join(Tail(parts))

\* new DocumentReference(client, collectionPath, id), with the value of its
\* getter path, `${this.collectionPath}/${this.id}`
DocumentReference(collectionPath, id) ==
    [kind |-> "document", collectionPath |-> collectionPath, id |-> id,
     path |-> collectionPath \o <<"/">> \o id]

\* client.doc with the whole path as the collection path
docUnsliced(path) ==
    LET parts == split(path) IN
    IF Len(parts) % 2 # 0 THEN [kind |-> "error"]
    ELSE DocumentReference(join(parts), parts[Len(parts)])

\* client.doc(path): a TelestackError for an odd number of segments
doc(path) ==
    LET parts == split(path) IN
    IF Len(parts) % 2 # 0 THEN [kind |-> "error"]
    ELSE DocumentReference(join(SubSeq(parts, 1, Len(parts) - 1)), parts[Len(parts)])

\* client.doc(path) and client.collection(path) are called; args are the
\* arguments the reference was made of
ClientDoc ==
    /\ \E path \in UNION {[1..n -> Chars] : n \in 0..MaxPathLen} :
          client' = [client EXCEPT !.result =
                        [op |-> "client.doc", ref |-> doc(path), args |-> <<path>>]]
    /\ UNCHANGED <<server, sent>>

ClientCollection ==
    /\ \E path \in Names :
          client' = [client EXCEPT !.result =
                        [op |-> "client.collection",
                         ref |-> [kind |-> "collection", path |-> path],
                         args |-> <<path>>]]
    /\ UNCHANGED <<server, sent>>

\* collectionRef.doc(id)
CollectionDoc ==
    /\ client.result.op \in {"client.collection", "collection"}
    /\ Len(client.result.args) < MaxSegments
    /\ \E id \in Names :
          client' = [client EXCEPT !.result =
                        [op |-> "doc", ref |-> DocumentReference(client.result.ref.path, id),
                         args |-> Append(client.result.args, id)]]
    /\ UNCHANGED <<server, sent>>

\* docRef.collection(name)
DocumentCollection ==
    /\ client.result.op = "doc"
    /\ Len(client.result.args) < MaxSegments
    /\ \E name \in Names :
          client' = [client EXCEPT !.result =
                        [op |-> "collection",
                         ref |-> [kind |-> "collection",
                                  path |-> client.result.ref.path \o <<"/">> \o name],
                         args |-> Append(client.result.args, name)]]
    /\ UNCHANGED <<server, sent>>

PathNext ==
    \/ ClientDoc
    \/ ClientCollection
    \/ CollectionDoc
    \/ DocumentCollection

SpecPath == Init /\ [][PathNext]_vars

\* C29: client.doc(p) of a path p with an even number of segments is a
\* document reference whose path is p, and so is client.doc of that path
\* again; client.doc of a path with an odd number of segments throws; and
\* collection(c).doc(i) has the path c/i, collection(c).doc(i).collection(c2)
\* .doc(i2) the path c/i/c2/i2.
C29_PathRoundTrip ==
    LET r == client.result
        a == r.args
        Slashes(p) == Cardinality({i \in 1..Len(p) : p[i] = "/"})
    IN
    /\ r.op = "client.doc" =>
          IF Slashes(a[1]) % 2 = 1
          THEN /\ r.ref.kind = "document"
               /\ r.ref.path = a[1]
               /\ doc(r.ref.path).path = a[1]
          ELSE r.ref.kind = "error"
    /\ (r.op = "doc" /\ Len(a) = 2) => r.ref.path = a[1] \o <<"/">> \o a[2]
    /\ (r.op = "doc" /\ Len(a) = 4) =>
          r.ref.path = a[1] \o <<"/">> \o a[2] \o <<"/">> \o a[3] \o <<"/">> \o a[4]

\* collection('u').doc('pu').collection('pu').doc('u') has been made
C29_Witness ==
    /\ client.result.op = "doc"
    /\ client.result.args = << <<"u">>, <<"p", "u">>, <<"p", "u">>, <<"u">> >>
    /\ client.result.ref.path = <<"u", "/", "p", "u", "/", "p", "u", "/", "u">>

(***************************************************************************)
(* Query.matches of the SDK and the WHERE clause the server's QUERY route  *)
(* builds from the same filters, on documents with one field f that is     *)
(* missing, a number or an array of numbers.                               *)
(***************************************************************************)
MaxFilters == 2

Num(n) == [t |-> "num", n |-> n, a |-> <<>>, s |-> ""]
Arr(a) == [t |-> "arr", n |-> 0, a |-> a, s |-> ""]
Str(s) == [t |-> "str", n |-> 0, a |-> <<>>, s |-> s]
Missing == [t |-> "undefined", n |-> 0, a |-> <<>>, s |-> ""]

\* doc.f: missing, 1, 2 or [1]
FieldValues == {Missing, Num(1), Num(2), Arr(<<1>>)}

\* where('f', op, value): numbers to compare with, lists for `in`, patterns
\* for LIKE
Filters ==
    {[op |-> o, value |-> Num(n)] :
        o \in {"==", "!=", "<", "<=", ">", ">=", "array-contains"}, n \in {1, 2}}
    \cup {[op |-> "in", value |-> Arr(a)] : a \in {<<1>>, <<1, 2>>}}
    \cup {[op |-> "LIKE", value |-> Str(s)] : s \in {"%", "1"}}

\* Query.matches(doc), lines 439-458, for doc = { f: docValue } or {}
matches(docValue, filters) ==
    LET \* a number or [1] in a relational comparison: ToNumber; undefined: NaN
        IsNumber(v) == v.t = "num" \/ (v.t = "arr" /\ Len(v.a) = 1)
        ToNumber(v) == IF v.t = "num" THEN v.n ELSE v.a[1]
        \* docValue === value: arrays are equal to no number
        StrictEquals(v, w) == v.t = "num" /\ w.t = "num" /\ v.n = w.n
        Passes(f) ==
            CASE f.op = "==" -> StrictEquals(docValue, f.value)
              [] f.op = "!=" -> ~StrictEquals(docValue, f.value)
              [] f.op = ">"  -> IsNumber(docValue) /\ ToNumber(docValue) > f.value.n
              [] f.op = "<"  -> IsNumber(docValue) /\ ToNumber(docValue) < f.value.n
              [] f.op = ">=" -> IsNumber(docValue) /\ ToNumber(docValue) >= f.value.n
              [] f.op = "<=" -> IsNumber(docValue) /\ ToNumber(docValue) <= f.value.n
              [] f.op = "in" ->
                    /\ f.value.t = "arr"
                    /\ \E i \in 1..Len(f.value.a) : StrictEquals(docValue, Num(f.value.a[i]))
              [] f.op = "array-contains" ->
                    /\ docValue.t = "arr"
                    /\ \E i \in 1..Len(docValue.a) : docValue.a[i] = f.value.n
              [] OTHER -> TRUE      \* the switch has no case for it
    IN  \A i \in 1..Len(filters) : Passes(filters[i])

\* lines 455-486: the conditions the QUERY route adds to its WHERE clause
\* for the filters, on json_extract(data, '$.f'): NULL for a missing field
\* (every comparison with it is NULL, the row is left out), an INTEGER for a
\* number, the TEXT of the JSON for an array (TEXT is above every INTEGER)
QueryWhere(docValue, filters) ==
    LET IsNull == docValue.t = "undefined"
        IsInteger == docValue.t = "num"
        Holds(f) ==
            CASE f.op = "==" -> IsInteger /\ docValue.n = f.value.n
              [] f.op = "!=" -> ~IsNull /\ ~(IsInteger /\ docValue.n = f.value.n)
              [] f.op = ">"  -> ~IsNull /\ (IsInteger => docValue.n > f.value.n)
              [] f.op = ">=" -> ~IsNull /\ (IsInteger => docValue.n >= f.value.n)
              [] f.op = "<"  -> IsInteger /\ docValue.n < f.value.n
              [] f.op = "<=" -> IsInteger /\ docValue.n <= f.value.n
              [] f.op = "in" ->
                    IsInteger /\ \E i \in 1..Len(f.value.a) : docValue.n = f.value.a[i]
              \* json_each of an array: its elements; of a number: the number
              [] f.op = "array-contains" ->
                    \/ docValue.t = "arr" /\ \E i \in 1..Len(docValue.a) : docValue.a[i] = f.value.n
                    \/ IsInteger /\ docValue.n = f.value.n
              \* LIKE '%': any text; LIKE '1': the text 1
              [] f.op = "LIKE" ->
                    ~IsNull /\ (f.value.s = "%" \/ (IsInteger /\ docValue.n = 1))
    IN  \A i \in 1..Len(filters) : Holds(filters[i])

\* a query with some filters meets a document: what matches says of it and
\* whether the server's query selects it
Matches ==
    /\ \E docValue \in FieldValues,
          filters \in UNION {[1..n -> Filters] : n \in 0..MaxFilters} :
          client' = [client EXCEPT !.result =
                        [op |-> "matches", docValue |-> docValue, filters |-> filters,
                         matches |-> matches(docValue, filters),
                         selected |-> QueryWhere(docValue, filters)]]
    /\ UNCHANGED <<server, sent>>

MatchNext ==
    \/ Matches

SpecMatch == Init /\ [][MatchNext]_vars

\* C30: Query.matches(doc) is true exactly when the server's query with the
\* same filters has the document in its result.
C30_MatchesAsServer ==
    client.result.op = "matches" => client.result.matches = client.result.selected

\* C31: a PATCH that finds its document tombstoned answers 404 and goes no
\* further (no event, no write), and a tombstoned document becomes visible
\* again only by the write of a Set: a PUT, or a SET operation of a batch.
C31_TombstoneLeftOnlyBySet ==
    [][/\ \A r \in Slots :
             (/\ handlers[r].method = "PATCH" /\ handlers[r].pc = "select"
              /\ handlers'[r] # handlers[r]
              /\ handlers[r].docId \in DOMAIN documents
              /\ documents[handlers[r].docId].deleted_at) =>
                /\ handlers'[r] = IdleHandler
                /\ sent' # {}
                /\ \A resp \in sent' : resp.status = 404
       /\ \A id \in DOMAIN documents :
             (documents[id].deleted_at /\ ~documents'[id].deleted_at) =>
                \E r \in Slots :
                   \/ handlers[r].method = "PUT" /\ handlers[r].pc = "writeDoc"
                      /\ handlers[r].docId = id
                   \/ /\ handlers[r].pc = "batchCommit"
                      /\ \E k \in 1..Len(handlers[r].operations) :
                            /\ handlers[r].operations[k].type = "SET"
                            /\ Last(handlers[r].operations[k].path) = id]_vars

\* C32: committing the batch [UPDATE(path, p)] on a stored document with data
\* d leaves the document with json_patch(d, p), the data a single PATCH of
\* the same path with the same patch writes (PatchUpdate).
C32_BatchUpdateMerges ==
    [][\A r \in Slots :
          (/\ handlers[r].pc = "batchCommit"
           /\ handlers'[r].pc = "publish"
           /\ Len(handlers[r].operations) = 1
           /\ handlers[r].operations[1].type = "UPDATE"
           /\ Last(handlers[r].operations[1].path) \in DOMAIN documents) =>
             LET op == handlers[r].operations[1]
                 id == Last(op.path)
             IN  documents'[id].data =
                    PatchUpdate(documents[id], op.data, documents'[id].version).data]_vars

\* C33: a rule pattern that ends in /** matches every path of which the
\* pattern's leading segments are a proper prefix, a leading {name} segment
\* standing for any one segment: checked on the path of each batch operation
\* as the security check reads it.
C33_TrailingWildcardMatches ==
    [][\A r \in Slots :
          (handlers[r].pc = "batchSelect" /\ handlers'[r] # handlers[r]) =>
             LET path == handlers[r].operations[handlers[r].i + 1].path IN
             \A n \in 1..Len(rulesConfig) :
                LET pattern == rulesConfig[n].path
                    base == SubSeq(pattern, 1, Len(pattern) - 1)
                IN  (/\ Last(pattern) = "**"
                     /\ Len(path) > Len(base)
                     /\ \A k \in 1..Len(base) :
                           base[k] \in ParamSegments \/ base[k] = path[k]) =>
                       matchPath(pattern, path)]_vars

(***************************************************************************)
(* Two calls of processQueue that may overlap: the 5 s timer and the      *)
(* broker's 'connected' event each start one.  Call k talks to the server *)
(* through its own connection (slot h<k>); a response is handed to the    *)
(* call that awaits it before the server takes another step.              *)
(***************************************************************************)
Callers == {1, 2}
SlotOf(k) == IF k = 1 THEN "h1" ELSE "h2"

\* the two calls: each as a call record, with the keys of the queue records
\* whose PUT it has sent since it was started and the length of the queue as
\* its getAll last found it (-1: it has found no record yet)
Drains(c) ==
    IF c.call.op = "drains" THEN c.call
    ELSE [op |-> "drains", pc |-> "", d |-> [k \in Callers |-> NoCall],
          sentBy |-> [k \in Callers |-> {}], before |-> [k \in Callers |-> -1]]

\* the client as call k sees it, and the client once call k has taken it to c
DrainView(k) == [client EXCEPT !.call = Drains(client).d[k]]
DrainStep(k, c, sentNow) ==
    [c EXCEPT !.call = [Drains(client) EXCEPT !.d[k] = c.call,
                                              !.sentBy[k] = @ \cup sentNow]]

\* a write made while offline and found in the queue: set's optimistic put,
\* the fetch that throws, the catch that queues it (lines 647, 667-674)
QueuedSet ==
    /\ ~client.online
    /\ \A k \in Callers : Drains(client).d[k].op = "none"
    /\ Len(client.queue.records) < MaxQueue
    /\ \E path \in {<<"items", "a">>}, data \in ClientData :
          client' = DrainStep(1, SetCatch(BeginSet(DrainView(1), "set", path, data)), {})
    /\ UNCHANGED <<server, sent>>

\* processQueue() is called, line 284: the test of isProcessingQueue, up to
\* the await of getAll
Trigger(k) ==
    /\ Drains(client).d[k].op = "none"
    /\ client' =
          IF client.isProcessingQueue
          THEN DrainStep(k, [DrainView(k) EXCEPT
                                !.result = [NoResult EXCEPT !.op = "processQueue"]], {})
          ELSE [client EXCEPT
                   !.call = [Drains(client) EXCEPT
                                !.d[k] = [NoCall EXCEPT !.op = "processQueue", !.pc = "getAll"],
                                !.sentBy[k] = {}]]
    /\ UNCHANGED <<server, sent>>

\* lines 286-297: getAll resolves; with records in the queue the flag is set
\* and the first item's set begins
GetAll(k) ==
    /\ Drains(client).d[k].pc = "getAll"
    /\ client' =
          IF client.queue.records = <<>>
          THEN DrainStep(k, [DrainView(k) EXCEPT
                                !.call = NoCall,
                                !.result = [NoResult EXCEPT !.op = "processQueue"]], {})
          ELSE LET item == client.queue.records[1] IN
               [DrainStep(k, BeginSet([DrainView(k) EXCEPT
                                          !.isProcessingQueue = TRUE,
                                          !.call.items = client.queue.records],
                                      "processQueue", item.path, item.data), {})
                   EXCEPT !.call.before[k] = Len(client.queue.records)]
    /\ UNCHANGED <<server, sent>>

\* the authFetch of set (PUT) or of getSnapshot (GET) in call k: the request
\* reaches the server, or fetch throws and the catch runs
DrainFetch(k) ==
    LET c == DrainView(k)
        put == c.call.pc = "putFetch"
    IN
    /\ c.call.pc \in {"putFetch", "getFetch"}
    /\ IF client.online
       THEN /\ sent = {}
            /\ put => Room(1)
            /\ handlers[SlotOf(k)].pc = "idle"
            /\ Handled(SlotOf(k),
                  Route(Request(IF put THEN "PUT" ELSE "GET",
                                c.call.path[Len(c.call.path) - 1], Last(c.call.path),
                                ClientAuth, IF put THEN c.call.data ELSE JUndefined,
                                {}, <<>>),
                        c.call.path, "select"))
            /\ client' = DrainStep(k, [c EXCEPT !.call.pc = IF put THEN "putWait" ELSE "getWait"],
                                   IF put THEN {c.call.items[1].id} ELSE {})
            /\ UNCHANGED <<documents, events, publications, lastSet, tombstoned>>
       ELSE /\ put => Len(client.queue.records) < MaxQueue
            /\ client' = DrainStep(k, IF put THEN SetCatch(c) ELSE SnapshotCatch(c), {})
            /\ UNCHANGED <<server, sent>>

\* the response reaches call k, whose handler has just returned
DrainReceive(k) ==
    LET c == DrainView(k) IN
    /\ c.call.pc \in {"putWait", "getWait"}
    /\ sent # {}
    /\ handlers[SlotOf(k)].pc = "idle"
    /\ c.call.pc = "putWait" => Len(client.queue.records) < MaxQueue
    /\ client' = DrainStep(k, IF c.call.pc = "putWait"
                              THEN SetResponse(c, TheOne(sent))
                              ELSE SnapshotResponse(c, TheOne(sent)), {})
    /\ sent' = {}
    /\ UNCHANGED server

DrainsNext ==
    \/ QueuedSet
    \/ NetworkChange
    \/ \E k \in Callers :
          \/ Trigger(k)
          \/ GetAll(k)
          \/ DrainFetch(k)
          \/ DrainReceive(k)
    \/ /\ sent = {}
       /\ \E r \in Slots :
             \/ Select(r)
             \/ InsertEventStep(r)
             \/ WriteDoc(r)
             \/ Publish(r)

SpecDrains == Init /\ [][DrainsNext]_vars

\* C34: overlapping calls of processQueue never both send the same queued
\* operation: when a call sends the PUT of a queue record, the other call,
\* if it is in progress, has not sent the PUT of that record.
C34_OneDrainAtATime ==
    [][\A k \in Callers, j \in Callers :
          (/\ k # j
           /\ Drains(client).d[k].pc = "putFetch"
           /\ Drains(client').d[k].pc = "putWait") =>
             ~(/\ Drains(client).d[j].op = "processQueue"
               /\ Drains(client).d[k].items[1].id \in Drains(client).sentBy[j])]_vars

\* C35: a drain adds no entry to the queue: when a call of processQueue that
\* found records in the queue returns, the queue is no longer than its
\* getAll found it (stated for a drain that no other call overlaps: the
\* other call has found no record so far).
C35_DrainAddsNothing ==
    [][\A k \in Callers, j \in Callers :
          (/\ k # j
           /\ Drains(client).before[j] = -1
           /\ Drains(client).d[k].op = "processQueue"
           /\ Drains(client).d[k].pc # "getAll"
           /\ Drains(client').d[k].op = "none") =>
             Len(client'.queue.records) <= Drains(client).before[k]]_vars

\* C36: a transaction that read a document that does not exist and staged a
\* set of it with that snapshot commits when no other writer has touched the
\* document: the batch's response is a success and runTransaction does not throw.
C36_SetOfMissingCommits ==
    [][(/\ client.call.op = "runTransaction" /\ client.call.pc = "commitWait"
        /\ sent # {} /\ client' # client
        /\ client.call.path = <<"items", "a">>
        /\ client.call.operations[1].expectedVersion = {0}
        /\ "a" \notin DOMAIN documents) =>
          /\ TheOne(sent).status \in {200, 201}
          /\ client'.call.op = "none" /\ ~client'.result.threw]_vars

\* C37: in a live query without limit, a publication handled while the
\* initial fetch is in flight is not lost.  With one write in all, its
\* publication handled once, the fetch resolved, no timer pending and the
\* subscription still in place, the list delivered last holds the documents
\* the server holds.
C37_EarlyPublicationKept ==
    (/\ client.call.op = "onSnapshot" /\ ~client.call.limited
     /\ client.call.pc = "listening" /\ ~client.call.debounceTimer
     /\ ~client.call.disposed
     /\ AtRest /\ Len(events) = 1
     /\ client.call.deliveries = 1) =>
       client.call.delivered = {id \in DOMAIN documents : ~documents[id].deleted_at}

\* C40: once the function returned by onSnapshot has been called, the
\* subscriber's callback is not invoked again: neither by a fetch that was
\* in flight (Fetched) nor by the debounce timer (DebouncedCallback).
C40_NoCallbackAfterDispose ==
    [][(client.call.op = "onSnapshot" /\ client.call.disposed) =>
          /\ ~(client.call.pc = "getJson" /\ client'.call.pc = "listening")
          /\ ~(client.call.debounceTimer /\ ~client'.call.debounceTimer)
          /\ client'.call.delivered = client.call.delivered
          /\ client'.call.called = client.call.called]_vars

\* C38: a single-document request reads or changes only the document whose
\* stored path is the addressed path <parentPath>/<collection>/<id>: the
\* write of a PUT changes no row stored under another path, and a GET that
\* answers 200 answers with the row stored under the addressed path.
C38_AddressedByPath ==
    [][\A r \in Slots :
          LET h == handlers[r]
              path == h.parentPath \o <<h.collection, h.docId>>
          IN
          /\ (h.method = "PUT" /\ h.pc = "writeDoc" /\ handlers'[r] # h) =>
                \A id \in DOMAIN documents :
                   documents'[id] # documents[id] => documents[id].path = path
          /\ (/\ h.method = "GET" /\ h.pc = "select" /\ handlers'[r] # h
              /\ \E resp \in sent' : resp.status = 200) =>
                documents[h.docId].path = path]_vars

(***************************************************************************)
(* Query.get on the collection `items`, in a workspace that other clients *)
(* fill with documents of several collections.                            *)
(***************************************************************************)
QueryPath == <<"items">>

\* Query.get, lines 413-431: the fetch threw or the response was not ok; the
\* cached documents whose path starts with the query's path are returned
QueryCatch(c) ==
    [c EXCEPT !.call = NoCall,
              !.result = [op |-> "get", fromCache |-> TRUE,
                          ids |-> {Last(p) : p \in {q \in DOMAIN c.documents :
                                                       StartsWithSegments(q, QueryPath)}}]]

\* query.get() is called, lines 386-398: the GET of the query goes out
Get ==
    /\ client.call.op = "none"
    /\ IF client.online
       THEN /\ client' = [client EXCEPT !.call = [NoCall EXCEPT !.op = "get", !.pc = "getWait"]]
            /\ QueryGet(FALSE)
       ELSE /\ client' = QueryCatch(client)
            /\ UNCHANGED <<server, sent>>

\* lines 399-411: the rows of the response are returned as documents, each
\* one cached under `${this.path}/${d.id}` with its data and version
GetResponse ==
    /\ client.call.op = "get" /\ client.call.pc = "getWait"
    /\ sent # {}
    /\ LET resp == TheOne(sent)
           ids == resp.data.ids
           keys == {QueryPath \o <<id>> : id \in ids}
       IN  client' =
              IF resp.status # 200 THEN QueryCatch(client)
              ELSE [client EXCEPT
                      !.documents =
                         [p \in DOMAIN client.documents \cup keys |->
                             IF p \in keys
                             THEN [data |-> JSON_parse(documents[Last(p)].data),
                                   version |-> documents[Last(p)].version]
                             ELSE client.documents[p]],
                      !.call = NoCall,
                      !.result = [op |-> "get", fromCache |-> FALSE, ids |-> ids]]
    /\ sent' = {}
    /\ UNCHANGED server

QueryNext ==
    \/ Get
    \/ GetResponse
    \/ NetworkChange
    \/ client.call.pc # "getWait" /\ AcceptOn(ClientSlot)
    \/ Select(ClientSlot)
    \/ InsertEventStep(ClientSlot)
    \/ WriteDoc(ClientSlot)
    \/ Publish(ClientSlot)
    \/ SecureQuery(ClientSlot)

SpecQuery == Init /\ [][QueryNext]_vars

\* C39: Query.get on the collection C returns only documents stored under
\* C/<id>, and every cache entry C/<id> it writes belongs to a server
\* document whose path is C/<id>, with that document's data.
C39_QueryOfCollection ==
    [][(client.call.op = "get" /\ client'.call.op = "none"
        /\ ~client'.result.fromCache) =>
          /\ \A id \in client'.result.ids : documents[id].path = QueryPath \o <<id>>
          /\ \A p \in DOMAIN client'.documents :
                (p \notin DOMAIN client.documents \/ client'.documents[p] # client.documents[p]) =>
                   \E id \in DOMAIN documents :
                      /\ documents[id].path = p
                      /\ client'.documents[p].data = JSON_parse(documents[id].data)]_vars

=============================================================================
